---- MODULE Spec2Model ----
(***************************************************************************)
(* PillPal: the dose ledger kept in App.tsx (updateDoseStatus and the      *)
(* Dashboard buttons that call it), the safety gate checkDoseSafety and    *)
(* the PRN gate canTakePRN / recordPRNDose.                                *)
(*                                                                         *)
(* Time.  An instant (a JavaScript Date) is a number of minutes since the  *)
(* epoch, in UTC.  A calendar date string "YYYY-MM-DD" is its day number,  *)
(* a clock string "HH:mm" is its minute of the day, and the ledger key     *)
(* `${date}T${time}` is the pair <<date, time>>.  The browser's time zone  *)
(* is the variable tz (minutes east of UTC): toISOString() reads an        *)
(* instant in UTC, while new Date("<date>T<time>"), getHours(),            *)
(* setHours() and setDate() read and write it in local time.               *)
(*                                                                         *)
(* An optional field (quantity?: number, lastTakenTime?: string) is <<>>   *)
(* when undefined and <<v>> when set.  A missing doseStatus object reads   *)
(* like an empty one everywhere in the code (med.doseStatus || {},         *)
(* med.doseStatus?.[key]) and is the empty function here.                  *)
(***************************************************************************)
EXTENDS Integers, Sequences, FiniteSets, TLC

VARIABLES
    tz,               \* the browser's UTC offset in minutes (local = UTC + tz)
    now,              \* the wall clock, an instant
    medications,      \* App state: the medication array
    isModalOpen,      \* App state: the add/edit modal is shown
    editingMedication,\* App state: the medication handed to the modal, or <<>>
    med,              \* AddMedicationModal state: the form's fields
    todayString,      \* Dashboard: the date string of its last render
    nextId,           \* stands for Date.now().toString(), fresh at each add
    lastCmd,          \* observer: the last updateDoseStatus call's arguments
    initialMeds,      \* observer: the medication array at the start
    roundTrip,        \* observer: progress of a Taken -> null -> Taken toggle
    safetyIn,         \* the arguments of a checkDoseSafety call
    safetyOut,        \* what that call returned
    prnConfig,        \* the PRNConfig of one as-needed medication
    prnOut,           \* what the last canTakePRN call returned
    behavior,         \* the NotificationBehavior kept for one medication
    notifications,    \* the dose and refill notifications dispatched so far
    callIn,           \* the arguments of a call of a service function
    callOut,          \* what that call returned
    actions,          \* UndoService.actions, the undo stack
    added,            \* the addAction calls so far; numbers the actions
    undone            \* the actions whose undo callback the last call ran

vars == <<tz, now, medications, isModalOpen, editingMedication, med, todayString,
          nextId, lastCmd, initialMeds, roundTrip, safetyIn, safetyOut,
          prnConfig, prnOut, behavior, notifications, callIn, callOut,
          actions, added, undone>>

appVars == <<medications, isModalOpen, editingMedication, med, todayString, nextId>>
ledgerObs == <<lastCmd, initialMeds, roundTrip>>
safetyVars == <<safetyIn, safetyOut>>
prnVars == <<prnConfig, prnOut>>
reminderVars == <<behavior, notifications>>
callVars == <<callIn, callOut>>
undoVars == <<actions, added, undone>>
serviceVars == <<reminderVars, callVars, undoVars>>

----------------------------------------------------------------------------
(* Bounds of the model *)

\* dates run from FirstDay to FirstDay + NumDays - 1
NumDays == 2
\* the slots the ledger specification issues commands for
NumSlots == 2
\* the most entries of a ledger handed to checkDoseSafety
MaxEntries == 2
\* the half hours the PRN specification's clock runs for
MaxTicks == 12
\* the most doses recordPRNDose is made to count without asking the gate
MaxTaken == 4
\* the most notifications the timer is followed for
MaxNotifications == 2
\* the most snoozes a behaviour is followed for
MaxSnooze == 1
\* the days of ledger history handed to calculateAdherenceStreak
StreakDays == 5
\* the whole weeks of history handed to analyzeBehavioralPatterns
PatternWeeks == 2
\* the latest scheduled minute of the day and the largest average response
\* time handed to calculateAdaptiveReminderTime
MaxScheduled == 90
MaxResponse == 35
\* the most medications the App specification ever adds
MaxAdds == 1
\* the most times the form holds (the form's own limit is 8)
MaxTimes == 2
\* the most refills logRefill is followed for
MaxRefills == 1
\* the addAction calls the undo service is followed for
UndoAdds == 11

\* the days MedicationHistoryLog looks back
HistoryDays == 30
\* UndoService.maxActions
maxActions == 10

FirstDay == 1
Days == FirstDay .. (FirstDay + NumDays - 1)
MinutesPerDay == 24 * 60

\* the browser time zones tried: UTC-5, UTC, UTC+5
TimeZones == {0 - 300, 0, 300}

None == <<>>
Some(x) == <<x>>
IsSome(o) == o # <<>>
Val(o) == o[1]

NULL == "null"
Undefined == "undefined"
DoseStatus == {"taken", "skipped"}

----------------------------------------------------------------------------
(* Dates *)

\* d.toISOString().split('T')[0]
ToISODate(t) == t \div MinutesPerDay

\* new Date(`${date}T${time}`): a date-time without offset is local time
ParseLocal(date, time) == date * MinutesPerDay + time - tz

\* d.getHours()
GetHours(t) == ((t + tz) % MinutesPerDay) \div 60

\* the local "HH:mm" of an instant
LocalClock(t) == (t + tz) % MinutesPerDay

\* d.setHours(0, 0, 0, 0)
StartOfLocalDay(t) == ((t + tz) \div MinutesPerDay) * MinutesPerDay - tz

----------------------------------------------------------------------------
(* The dose ledger: Medication.doseStatus and updateDoseStatus *)

Key(date, time) == <<date, time>>

\* med.doseStatus?.[dateTimeKey]
StatusOf(m, key) ==
    IF key \in DOMAIN m.doseStatus THEN m.doseStatus[key] ELSE Undefined

\* newDoseStatus[dateTimeKey] = status
Put(ledger, key, status) ==
    [k \in (DOMAIN ledger) \cup {key} |-> IF k = key THEN status ELSE ledger[k]]

\* delete newDoseStatus[dateTimeKey]
Delete(ledger, key) ==
    [k \in (DOMAIN ledger) \ {key} |-> ledger[k]]

EmptyLedger == [k \in {} |-> "taken"]

TakenKeys(m) == {k \in DOMAIN m.doseStatus : m.doseStatus[k] = "taken"}

NewDoseStatus_KeepKey(m, key, status) ==
    Put(m.doseStatus, key, IF status = NULL THEN "missed" ELSE status)

NewDoseStatus(m, key, status) ==
    IF status = NULL
    THEN Delete(m.doseStatus, key)
    ELSE Put(m.doseStatus, key, status)

NewQuantity_NoOldCheck(m, oldStatus, status) ==
    IF IsSome(m.quantity)
    THEN IF status = "taken"
         THEN Some(Val(m.quantity) - 1)
         ELSE IF oldStatus = "taken" /\ status # "taken"
              THEN Some(Val(m.quantity) + 1)
              ELSE m.quantity
    ELSE m.quantity

NewQuantity_NoRestore(m, oldStatus, status) ==
    IF IsSome(m.quantity)
    THEN IF status = "taken" /\ oldStatus # "taken"
         THEN Some(Val(m.quantity) - 1)
         ELSE m.quantity
    ELSE m.quantity

\* typeof newQuantity === 'number': decrement on a new Taken, increment on a
\* reverted Taken
NewQuantity(m, oldStatus, status) ==
    IF IsSome(m.quantity)
    THEN IF status = "taken" /\ oldStatus # "taken"
         THEN Some(Val(m.quantity) - 1)
         ELSE IF oldStatus = "taken" /\ status # "taken"
              THEN Some(Val(m.quantity) + 1)
              ELSE m.quantity
    ELSE m.quantity

\* the updater passed to setMedications by updateDoseStatus
UpdateDoseStatus(prev, id, date, time, status) ==
    [i \in DOMAIN prev |->
        IF prev[i].id = id
        THEN LET key == Key(date, time)
                 oldStatus == StatusOf(prev[i], key)
             IN [prev[i] EXCEPT !.doseStatus = NewDoseStatus(prev[i], key, status),
                                !.quantity = NewQuantity(prev[i], oldStatus, status)]
        ELSE prev[i]]

----------------------------------------------------------------------------
(* The safety gate: checkDoseSafety and getRecommendedSpacing *)

\* the messages, by kind and by the numbers they print
AlreadyTakenError == [kind |-> "alreadyTaken"]
DailyMaxError(taken, max) == [kind |-> "dailyMax", taken |-> taken, max |-> max]
SpacingWarning(tenths, minSpacing) ==
    [kind |-> "spacing", tenthsOfHour |-> tenths, minSpacingHours |-> minSpacing]
EarlyWarning(minutes) == [kind |-> "early", minutesEarly |-> minutes]
FoodWarning == [kind |-> "food"]

\* the largest element of a non-empty set of instants: sort descending, take [0]
MostRecent(S) == CHOOSE x \in S : \A y \in S : y <= x

\* Math.round(x / d) for x >= 0: round half up
RoundDiv(x, d) == (2 * x + d) \div (2 * d)

\* the fixed minimum the gate compares the gap to, in hours
MinSpacingHours == 2

\* Check 2: spacing to sameMedDoses[0], the latest Taken entry of the medication
SpacingChecks(m, scheduledDateTime) ==
    LET sameMedDoses == {ParseLocal(k[1], k[2]) : k \in TakenKeys(m)}
    IN IF sameMedDoses = {}
       THEN <<>>
       ELSE LET lastDoseTime == MostRecent(sameMedDoses)
                \* hoursSinceLastDose, in minutes
                since == scheduledDateTime - lastDoseTime
            IN (IF since < MinSpacingHours * 60 /\ since > 0
                THEN <<SpacingWarning(RoundDiv(since, 6), MinSpacingHours)>>
                ELSE <<>>)
               \o
               (IF since < 0 /\ (0 - since) < 60
                THEN <<EarlyWarning(0 - since)>>
                ELSE <<>>)

\* Checks 3 and 4: the Taken entries of the date against times.length
DosesTakenToday(m, date) == Cardinality({k \in TakenKeys(m) : k[1] = date})

DailyMaxChecks_Strict(m, date, doseStatus) ==
    IF DosesTakenToday(m, date) > Len(m.times) /\ doseStatus = "taken"
    THEN <<DailyMaxError(DosesTakenToday(m, date), Len(m.times))>>
    ELSE <<>>

DailyMaxChecks(m, date, doseStatus) ==
    IF DosesTakenToday(m, date) >= Len(m.times) /\ doseStatus = "taken"
    THEN <<DailyMaxError(DosesTakenToday(m, date), Len(m.times))>>
    ELSE <<>>

\* Check 5: a 'Without food' medication at a typical meal hour
FoodChecks(m, scheduledDateTime) ==
    LET currentHour == GetHours(scheduledDateTime)
    IN IF m.food = "Without food"
          /\ \/ (currentHour >= 7 /\ currentHour <= 9)
             \/ (currentHour >= 12 /\ currentHour <= 14)
             \/ (currentHour >= 18 /\ currentHour <= 20)
       THEN <<FoodWarning>>
       ELSE <<>>

SafetyResult(warnings, errors, canProceed) ==
    [isSafe |-> (errors = <<>>) /\ canProceed,
     warnings |-> warnings, errors |-> errors, canProceed |-> canProceed]

checkDoseSafety_NoEarlyReturn(m, date, time, doseStatus) ==
    LET scheduledDateTime == ParseLocal(date, time)
        first == IF StatusOf(m, Key(date, time)) = "taken"
                 THEN <<AlreadyTakenError>> ELSE <<>>
        errors == first \o DailyMaxChecks(m, date, doseStatus)
    IN SafetyResult(SpacingChecks(m, scheduledDateTime)
                        \o FoodChecks(m, scheduledDateTime),
                    errors, errors = <<>>)

checkDoseSafety_WarningsBlock(m, date, time, doseStatus) ==
    LET scheduledDateTime == ParseLocal(date, time)
    IN IF StatusOf(m, Key(date, time)) = "taken"
       THEN SafetyResult(<<>>, <<AlreadyTakenError>>, FALSE)
       ELSE LET warnings == SpacingChecks(m, scheduledDateTime)
                                \o FoodChecks(m, scheduledDateTime)
                errors == DailyMaxChecks(m, date, doseStatus)
            IN SafetyResult(warnings, errors, errors = <<>> /\ warnings = <<>>)

\* checkDoseSafety(medication, date, time, doseStatus, allMedications);
\* allMedications is never read
checkDoseSafety(m, date, time, doseStatus) ==
    LET scheduledDateTime == ParseLocal(date, time)
    IN IF StatusOf(m, Key(date, time)) = "taken"
       THEN SafetyResult(<<>>, <<AlreadyTakenError>>, FALSE)
       ELSE LET warnings == SpacingChecks(m, scheduledDateTime)
                                \o FoodChecks(m, scheduledDateTime)
                errors == DailyMaxChecks(m, date, doseStatus)
            IN SafetyResult(warnings, errors, errors = <<>>)

\* The frequency texts tried, already lower-cased as toLowerCase() leaves them,
\* and which of the phrases the services look for each one includes.
FrequencyTexts == {"", "once daily", "twice daily", "three times daily",
                   "every 4 hours", "take 1 tablet qid", "as needed"}

Includes(frequency, phrase) ==
    CASE frequency = "once daily" -> phrase \in {"once", "daily"}
      [] frequency = "twice daily" -> phrase \in {"twice daily", "twice", "daily"}
      [] frequency = "three times daily" ->
            phrase \in {"three times", "three", "daily"}
      [] frequency = "every 4 hours" -> phrase \in {"every 4 hours"}
      [] frequency = "take 1 tablet qid" -> phrase \in {"qid"}
      [] frequency = "as needed" -> phrase \in {"as needed"}
      [] OTHER -> FALSE

\* getRecommendedSpacing(medication), in hours
getRecommendedSpacing(m) ==
    LET frequency == m.frequency
    IN IF Includes(frequency, "every 4 hours") \/ Includes(frequency, "q4h") THEN 4
       ELSE IF Includes(frequency, "every 6 hours") \/ Includes(frequency, "q6h") THEN 6
       ELSE IF Includes(frequency, "every 8 hours") \/ Includes(frequency, "q8h") THEN 8
       ELSE IF Includes(frequency, "every 12 hours") \/ Includes(frequency, "q12h") THEN 12
       ELSE IF Includes(frequency, "twice daily") \/ Includes(frequency, "bid") THEN 12
       ELSE IF Includes(frequency, "three times") \/ Includes(frequency, "tid") THEN 8
       ELSE IF Includes(frequency, "four times") \/ Includes(frequency, "qid") THEN 6
       ELSE 2

----------------------------------------------------------------------------
(* Medication records *)

NoReasons == [k \in {} |-> ""]

\* a Medication with the fields the modelled code reads or writes
Medication(id, name, frequency, food, times, quantity, refillThreshold) ==
    [id |-> id, name |-> name, frequency |-> frequency, food |-> food,
     times |-> times, doseStatus |-> EmptyLedger, missedDoseReasons |-> NoReasons,
     quantity |-> quantity, refillThreshold |-> refillThreshold,
     refillNotified |-> FALSE, refillHistory |-> <<>>]

\* medications.find(m => m.id === id), as the set of matching indices
IndexOf(meds, id) == {i \in DOMAIN meds : meds[i].id = id}

\* values of the variables a specification does not use
IdleApp ==
    /\ isModalOpen = FALSE
    /\ editingMedication = None
    /\ med = None
    /\ todayString = FirstDay
    /\ nextId = 1
IdleLedgerObs ==
    /\ lastCmd = None
    /\ initialMeds = <<>>
    /\ roundTrip = [phase |-> "idle"]
IdleSafety ==
    /\ safetyIn = None
    /\ safetyOut = None
IdlePRN ==
    /\ prnConfig = None
    /\ prnOut = None
IdleReminder ==
    /\ behavior = None
    /\ notifications = <<>>
IdleCall ==
    /\ callIn = None
    /\ callOut = None
IdleUndo ==
    /\ actions = <<>>
    /\ added = 0
    /\ undone = <<>>

----------------------------------------------------------------------------
(* SpecLedger: updateDoseStatus driven by every command *)

\* the slots commanded: two times of one day, then the next day
SlotList == <<Key(FirstDay, 9 * 60), Key(FirstDay, 21 * 60),
              Key(FirstDay + 1, 9 * 60), Key(FirstDay + 1, 21 * 60)>>
LedgerSlots == {SlotList[i] : i \in 1 .. NumSlots}
\* "m9" is the id of no medication
LedgerIds == {"m1", "m2", "m9"}

LedgerInitialMeds ==
    {<<[Medication("m1", "Aspirin", "twice daily", "Without food",
                   <<9 * 60, 21 * 60>>, Some(q), None)
            EXCEPT !.doseStatus = l],
       Medication("m2", "Vitamin D", "once daily", "No specific instructions",
                  <<9 * 60>>, None, None)>> :
        q \in {0, 2},
        l \in {EmptyLedger, Put(EmptyLedger, SlotList[1], "taken"),
               Put(EmptyLedger, SlotList[2], "skipped")}}

\* the observer of a Taken -> null -> Taken toggle of one slot
NextRoundTrip(prev, id, key, status) ==
    LET hit == IndexOf(prev, id)
    IN IF hit = {} THEN [phase |-> "idle"]
       ELSE LET m == prev[CHOOSE i \in hit : TRUE]
            IN IF status = NULL /\ StatusOf(m, key) = "taken"
               THEN [phase |-> "unmarked", id |-> id, key |-> key, before |-> m]
               ELSE IF /\ status = "taken"
                       /\ roundTrip.phase = "unmarked"
                       /\ roundTrip.id = id
                       /\ roundTrip.key = key
                    THEN [roundTrip EXCEPT !.phase = "remarked"]
                    ELSE [phase |-> "idle"]

\* the observer's note of one command: its arguments and the slot's status before
CommandSeen(prev, id, date, time, status) ==
    [id |-> id, date |-> date, time |-> time, status |-> status,
     old |-> IF IndexOf(prev, id) = {} THEN Undefined
             ELSE StatusOf(prev[CHOOSE i \in IndexOf(prev, id) : TRUE],
                           Key(date, time))]

LedgerInit ==
    /\ tz \in TimeZones
    /\ now = ParseLocal(FirstDay, 0)
    /\ medications \in LedgerInitialMeds
    /\ initialMeds = medications
    /\ lastCmd = None
    /\ roundTrip = [phase |-> "idle"]
    /\ IdleApp /\ IdleSafety /\ IdlePRN /\ IdleReminder /\ IdleCall
    /\ IdleUndo

\* updateDoseStatus(id, date, time, status)
Command(id, date, time, status) ==
    /\ medications' = UpdateDoseStatus(medications, id, date, time, status)
    /\ lastCmd' = Some(CommandSeen(medications, id, date, time, status))
    /\ roundTrip' = NextRoundTrip(medications, id, Key(date, time), status)
    /\ UNCHANGED <<tz, now, initialMeds, isModalOpen, editingMedication, med,
                   todayString, nextId, safetyVars, prnVars, serviceVars>>

LedgerNext ==
    \E id \in LedgerIds, key \in LedgerSlots, status \in DoseStatus \cup {NULL} :
        Command(id, key[1], key[2], status)

SpecLedger == LedgerInit /\ [][LedgerNext]_vars

\* quantity + number of Taken entries, for a medication with a numeric quantity
Balance(m) == Val(m.quantity) + Cardinality(TakenKeys(m))

\* what one command did to the medication it names
StepKeepsBalance ==
    \A i \in DOMAIN medications :
        LET m == medications[i]
            c == Val(lastCmd')
            key == Key(c.date, c.time)
            was == StatusOf(m, key) = "taken"
            is == StatusOf(medications'[i], key) = "taken"
        IN (IsSome(m.quantity) /\ m.id = c.id) =>
              /\ IsSome(medications'[i].quantity)
              /\ Val(medications'[i].quantity) =
                    Val(m.quantity) + (IF was /\ ~is THEN 1 ELSE 0)
                                    - (IF ~was /\ is THEN 1 ELSE 0)
              /\ is = (c.status = "taken")

(* C1: under updateDoseStatus commands alone, a medication with a numeric
   quantity keeps quantity + (number of its Taken entries) equal to the value
   it started with; a command that newly creates a Taken entry lowers the
   quantity by exactly 1, one that removes a Taken entry raises it by exactly 1,
   and any other command leaves it unchanged. *)
C1_QuantityTracksTaken ==
    /\ [](\A i \in DOMAIN medications :
            IsSome(initialMeds[i].quantity) =>
                /\ IsSome(medications[i].quantity)
                /\ Balance(medications[i]) = Balance(initialMeds[i]))
    /\ [][StepKeepsBalance]_vars

C1_Witness ==
    /\ IsSome(lastCmd)
    /\ Val(lastCmd).status = "taken"
    /\ Val(lastCmd).old # "taken"
    /\ \E i \in DOMAIN medications :
          /\ IsSome(medications[i].quantity)
          /\ Val(medications[i].quantity) = Val(initialMeds[i].quantity) - 2
          /\ Cardinality(TakenKeys(medications[i])) = 2

(* C2: un-marking a Taken slot (status null) and marking it Taken again leaves
   the medication, its quantity and its ledger included, as it was before the
   un-mark. *)
C2_ToggleRoundTrip ==
    roundTrip.phase = "remarked" =>
        \A i \in IndexOf(medications, roundTrip.id) :
            /\ medications[i].quantity = roundTrip.before.quantity
            /\ medications[i].doseStatus = roundTrip.before.doseStatus

C2_Witness ==
    /\ roundTrip.phase = "remarked"
    /\ IsSome(roundTrip.before.quantity)
    /\ IndexOf(medications, roundTrip.id) # {}

(* C3: every value stored in a medication's dose ledger is 'taken' or
   'skipped'; a command with status null removes the slot's key. *)
C3_LedgerStoresOnlyOutcomes ==
    /\ \A i \in DOMAIN medications :
          \A k \in DOMAIN medications[i].doseStatus :
              medications[i].doseStatus[k] \in DoseStatus
    /\ IsSome(lastCmd) =>
          \A i \in IndexOf(medications, Val(lastCmd).id) :
              LET c == Val(lastCmd)
              IN IF c.status = NULL
                 THEN Key(c.date, c.time) \notin DOMAIN medications[i].doseStatus
                 ELSE StatusOf(medications[i], Key(c.date, c.time)) = c.status

\* a null command has just removed the entry of a slot that had one
C3_Witness ==
    /\ IsSome(lastCmd)
    /\ Val(lastCmd).status = NULL
    /\ Val(lastCmd).old \in DoseStatus
    /\ \E i \in IndexOf(medications, Val(lastCmd).id) :
          /\ Key(Val(lastCmd).date, Val(lastCmd).time)
                \notin DOMAIN medications[i].doseStatus
          /\ DOMAIN medications[i].doseStatus # {}

(* C4: setting Taken on a slot that is already Taken is answered by
   checkDoseSafety with canProceed = FALSE and the single error "already
   taken", no other rule having run, and updateDoseStatus leaves the ledger
   and the quantity as they were. *)
C4_TakenOnTakenIsNoOp ==
    [][\A i \in DOMAIN medications :
          LET c == Val(lastCmd')
              m == medications[i]
          IN (/\ m.id = c.id
              /\ c.status = "taken"
              /\ StatusOf(m, Key(c.date, c.time)) = "taken") =>
                 /\ checkDoseSafety(m, c.date, c.time, c.status) =
                       [isSafe |-> FALSE, warnings |-> <<>>,
                        errors |-> <<AlreadyTakenError>>, canProceed |-> FALSE]
                 /\ medications'[i].doseStatus = m.doseStatus
                 /\ medications'[i].quantity = m.quantity]_vars

\* a Taken command arrived at a Taken slot of a medication with a numeric
\* quantity, on a date whose Taken count had reached times.length
C4_Witness ==
    /\ IsSome(lastCmd)
    /\ Val(lastCmd).status = "taken"
    /\ Val(lastCmd).old = "taken"
    /\ \E i \in IndexOf(medications, Val(lastCmd).id) :
          /\ IsSome(medications[i].quantity)
          /\ Balance(medications[i]) = Balance(initialMeds[i])
          /\ DosesTakenToday(medications[i], Val(lastCmd).date)
                >= Len(medications[i].times)
          /\ Val(medications[i].quantity) = Val(initialMeds[i].quantity) - 2

----------------------------------------------------------------------------
(* Spec: the App component, its Dashboard and its add/edit modal *)

\* what the user types into the form
MedNames == {"Aspirin"}
QuantityInputs == {None, Some(1)}
TimeInputs == {9 * 60}

\* the instants the clock is read at: the local 09:00 of each day
ClockInstants == {ParseLocal(d, 9 * 60) : d \in Days}

\* initialMedState; name stands for the name and dosage pair, both required
initialMedState ==
    [name |-> "", frequency |-> "", food |-> "No specific instructions",
     times |-> <<9 * 60>>, quantity |-> None, refillThreshold |-> None]

FormFields == DOMAIN initialMedState

\* the modal's effect on existingMedication: the form takes its fields
FormOf(existing) == [f \in FormFields |-> existing[f]]

\* { ...existingMedication, ...finalMedData }
Merge(existing, finalMedData) ==
    [f \in DOMAIN existing |->
        IF f \in FormFields THEN finalMedData[f] ELSE existing[f]]

\* Dashboard: today.setHours(0,0,0,0); today.toISOString().split('T')[0]
RenderToday(t) == ToISODate(StartOfLocalDay(t))

\* removal of the element at index i: filter((_, j) => j !== i)
RemoveAt(seq, i) == SubSeq(seq, 1, i - 1) \o SubSeq(seq, i + 1, Len(seq))

Init ==
    /\ tz \in TimeZones
    /\ now = ParseLocal(FirstDay, 9 * 60)
    /\ medications = <<>>
    /\ isModalOpen = FALSE
    /\ editingMedication = None
    /\ med = None
    /\ todayString = RenderToday(now)
    /\ nextId = 1
    /\ IdleLedgerObs /\ IdleSafety /\ IdlePRN /\ IdleReminder /\ IdleCall
    /\ IdleUndo

\* time passes; nothing is rendered
Advance ==
    /\ \E t \in ClockInstants : t > now /\ now' = t
    /\ UNCHANGED <<tz, appVars, ledgerObs, safetyVars, prnVars, serviceVars>>

\* the Dashboard renders again (navigation back to it, or any App state change)
RenderDashboard ==
    /\ todayString # RenderToday(now)
    /\ todayString' = RenderToday(now)
    /\ UNCHANGED <<tz, now, medications, isModalOpen, editingMedication, med,
                   nextId, ledgerObs, safetyVars, prnVars, serviceVars>>

\* openAddModal
OpenAddModal ==
    /\ ~isModalOpen
    /\ editingMedication' = None
    /\ isModalOpen' = TRUE
    /\ med' = Some(initialMedState)
    /\ todayString' = RenderToday(now)
    /\ UNCHANGED <<tz, now, medications, nextId, ledgerObs, safetyVars, prnVars, serviceVars>>

\* handleEdit(med), and the modal's effect that fills the form from it
HandleEdit(i) ==
    /\ ~isModalOpen
    /\ editingMedication' = Some(medications[i])
    /\ isModalOpen' = TRUE
    /\ med' = Some(FormOf(medications[i]))
    /\ todayString' = RenderToday(now)
    /\ UNCHANGED <<tz, now, medications, nextId, ledgerObs, safetyVars, prnVars, serviceVars>>

\* onClose: the modal unmounts.  The code leaves editingMedication as it was;
\* it is read only while the modal is open, and both ways of opening the modal
\* (openAddModal, handleEdit) set it first, so the stale value is dropped here.
CloseModal ==
    /\ isModalOpen
    /\ isModalOpen' = FALSE
    /\ med' = None
    /\ editingMedication' = None
    /\ todayString' = RenderToday(now)
    /\ UNCHANGED <<tz, now, medications, nextId, ledgerObs, safetyVars, prnVars, serviceVars>>

FormStep(newForm) ==
    /\ isModalOpen
    /\ newForm # Val(med)
    /\ med' = Some(newForm)
    /\ UNCHANGED <<tz, now, medications, isModalOpen, editingMedication,
                   todayString, nextId, ledgerObs, safetyVars, prnVars, serviceVars>>

\* handleChange on the quantity input
ChangeQuantity ==
    \E q \in QuantityInputs : FormStep([Val(med) EXCEPT !.quantity = q])

\* handleChange on the name and quantity inputs
HandleChange ==
    \/ \E n \in MedNames : FormStep([Val(med) EXCEPT !.name = n])
    \/ ChangeQuantity

\* handleTimeChange(index, value)
HandleTimeChange ==
    \E i \in 1 .. MaxTimes, v \in TimeInputs :
        /\ isModalOpen
        /\ i \in DOMAIN Val(med).times
        /\ FormStep([Val(med) EXCEPT !.times[i] = v])

\* addTime: appends '21:00'
AddTime ==
    /\ isModalOpen
    /\ Len(Val(med).times) < MaxTimes
    /\ FormStep([Val(med) EXCEPT !.times = Append(@, 21 * 60)])

\* removeTime(index)
RemoveTime ==
    \E i \in 1 .. MaxTimes :
        /\ isModalOpen
        /\ i \in DOMAIN Val(med).times
        /\ FormStep([Val(med) EXCEPT !.times = RemoveAt(@, i)])

\* updateMedication(updatedMed)
UpdateMedication(prev, updatedMed) ==
    [i \in DOMAIN prev |-> IF prev[i].id = updatedMed.id THEN updatedMed ELSE prev[i]]

\* handleSubmit of an edit: onUpdate({...existingMedication, ...finalMedData})
SubmitEdit ==
    /\ isModalOpen
    /\ Val(med).name # ""
    /\ IsSome(editingMedication)
    /\ medications' = UpdateMedication(medications,
                                       Merge(Val(editingMedication), Val(med)))
    /\ isModalOpen' = FALSE
    /\ med' = None
    /\ editingMedication' = None
    /\ todayString' = RenderToday(now)
    /\ UNCHANGED <<tz, now, nextId, ledgerObs, safetyVars, prnVars, serviceVars>>

\* handleSubmit of a new medication: the duplicate check, then addAction;
\* addMedication gives it the id Date.now().toString()
SubmitAdd ==
    /\ isModalOpen
    /\ Val(med).name # ""
    /\ editingMedication = None
    /\ \A i \in DOMAIN medications : medications[i].name # Val(med).name
    /\ nextId <= MaxAdds
    /\ LET f == Val(med)
       IN medications' =
             Append(medications,
                    Medication(nextId, f.name, f.frequency, f.food, f.times,
                               f.quantity, f.refillThreshold))
    /\ nextId' = nextId + 1
    /\ isModalOpen' = FALSE
    /\ med' = None
    /\ todayString' = RenderToday(now)
    /\ UNCHANGED <<tz, now, editingMedication, ledgerObs, safetyVars, prnVars, serviceVars>>

\* deleteMedication(id), confirmed in the confirmation modal
DeleteMedication(i) ==
    /\ ~isModalOpen
    /\ medications' = RemoveAt(medications, i)
    /\ todayString' = RenderToday(now)
    /\ UNCHANGED <<tz, now, isModalOpen, editingMedication, med, nextId,
                   ledgerObs, safetyVars, prnVars, serviceVars>>

\* a Dashboard button calls updateDoseStatus for a dose of the rendered day
DoseClick(i, time, newStatus) ==
    /\ medications' = UpdateDoseStatus(medications, medications[i].id,
                                       todayString, time, newStatus)
    /\ todayString' = RenderToday(now)
    /\ UNCHANGED <<tz, now, isModalOpen, editingMedication, med, nextId,
                   ledgerObs, safetyVars, prnVars, serviceVars>>

\* the "Mark as Taken" / "Taken" button of a dose row.  The handler does not
\* look at the modal: its overlay keeps the pointer from the button, not the
\* keyboard.
ClickTaken(i, t) ==
    /\ t \in DOMAIN medications[i].times
    /\ LET time == medications[i].times[t]
           status == StatusOf(medications[i], Key(todayString, time))
       IN DoseClick(i, time, IF status = "taken" THEN NULL ELSE "taken")

\* the skip button, shown while the dose is not Taken
ClickSkip(i, t) ==
    /\ t \in DOMAIN medications[i].times
    /\ LET time == medications[i].times[t]
           status == StatusOf(medications[i], Key(todayString, time))
       IN /\ status # "taken"
          /\ DoseClick(i, time, IF status = "skipped" THEN NULL ELSE "skipped")

Next ==
    \/ Advance
    \/ RenderDashboard
    \/ OpenAddModal
    \/ CloseModal
    \/ HandleChange
    \/ HandleTimeChange
    \/ AddTime
    \/ RemoveTime
    \/ SubmitEdit
    \/ SubmitAdd
    \/ \E i \in DOMAIN medications : HandleEdit(i)
    \/ \E i \in DOMAIN medications : DeleteMedication(i)
    \/ \E i \in DOMAIN medications, t \in 1 .. MaxTimes : ClickTaken(i, t)
    \/ \E i \in DOMAIN medications, t \in 1 .. MaxTimes : ClickSkip(i, t)

Spec == Init /\ [][Next]_vars

(* C5: every entry the ledger comes to hold, or holds with a new value, after
   a step is one checkDoseSafety allowed (canProceed) for the medication as it
   was before the step. *)
C5_GateBeforeCommit ==
    [][\A i \in DOMAIN medications, j \in DOMAIN medications' :
          (medications[i].id = medications'[j].id) =>
              \A k \in DOMAIN medications'[j].doseStatus :
                  (StatusOf(medications[i], k) # medications'[j].doseStatus[k]) =>
                      checkDoseSafety(medications[i], k[1], k[2],
                                      medications'[j].doseStatus[k]).canProceed]_vars

----------------------------------------------------------------------------
(* SpecSafety: checkDoseSafety applied to every input of a bounded set *)

\* 09:00, 09:30, 12:00 and 21:00 of two consecutive days
SafetyTimes == {9 * 60, 9 * 60 + 30, 12 * 60, 21 * 60}
SafetyKeys == {Key(d, t) : d \in {FirstDay, FirstDay + 1}, t \in SafetyTimes}
SafetyTimesLists == {<<>>, <<9 * 60>>, <<9 * 60, 9 * 60 + 30>>}
SafetyFrequencies == {"", "twice daily", "every 4 hours"}
SafetyFoods == {"Without food", "No specific instructions"}

\* the ledgers with at most MaxEntries entries
SafetyLedgers ==
    UNION {[D -> DoseStatus] : D \in {K \in SUBSET SafetyKeys : Cardinality(K) <= MaxEntries}}

SafetyInit ==
    /\ tz \in TimeZones
    /\ now = ParseLocal(FirstDay, 0)
    /\ \E times \in SafetyTimesLists, frequency \in SafetyFrequencies,
          food \in SafetyFoods, ledger \in SafetyLedgers,
          key \in SafetyKeys, status \in DoseStatus :
          safetyIn = Some([m |-> [Medication("m1", "Aspirin", frequency, food,
                                             times, None, None)
                                     EXCEPT !.doseStatus = ledger],
                           date |-> key[1], time |-> key[2], status |-> status])
    /\ safetyOut = None
    /\ medications = <<>>
    /\ IdleApp /\ IdleLedgerObs /\ IdlePRN /\ IdleReminder /\ IdleCall
    /\ IdleUndo

\* one call of checkDoseSafety
CheckDose ==
    /\ safetyOut = None
    /\ LET in == Val(safetyIn)
       IN safetyOut' = Some(checkDoseSafety(in.m, in.date, in.time, in.status))
    /\ UNCHANGED <<tz, now, appVars, ledgerObs, safetyIn, prnVars, serviceVars>>

SafetyNext == CheckDose

SpecSafety == SafetyInit /\ [][SafetyNext]_vars

HasKind(msgs, kind) == \E n \in DOMAIN msgs : msgs[n].kind = kind

(* C6: with proposed status Taken, checkDoseSafety returns an error and
   canProceed = FALSE whenever the Taken entries of the medication on the
   proposed date already number at least its schedule times (a medication with
   no times included); with proposed status Skipped it never returns the
   daily-maximum error. *)
C6_DailyMaximum ==
    IsSome(safetyOut) =>
        LET in == Val(safetyIn)
            out == Val(safetyOut)
            count == Cardinality({k \in DOMAIN in.m.doseStatus :
                                     k[1] = in.date /\ in.m.doseStatus[k] = "taken"})
        IN /\ (in.status = "taken" /\ count >= Len(in.m.times)) =>
                 /\ out.canProceed = FALSE
                 /\ out.errors # <<>>
                 /\ (StatusOf(in.m, Key(in.date, in.time)) # "taken") =>
                        out.errors = <<DailyMaxError(count, Len(in.m.times))>>
           /\ (in.status = "skipped") => ~HasKind(out.errors, "dailyMax")

\* a Taken proposal on a day that already has as many Taken entries as the
\* medication has times
C6_Witness ==
    /\ IsSome(safetyOut)
    /\ Val(safetyIn).status = "taken"
    /\ Len(Val(safetyIn).m.times) = 2
    /\ DosesTakenToday(Val(safetyIn).m, Val(safetyIn).date) = 2
    /\ HasKind(Val(safetyOut).errors, "dailyMax")

(* C7: canProceed is FALSE exactly when the errors list is non-empty; spacing,
   early-mark and food-timing findings are warnings and leave canProceed TRUE.
   A second Taken mark 30 minutes after the first, for a twice-daily
   medication with two schedule times, yields a spacing warning and
   canProceed = TRUE. *)
C7_OnlyErrorsBlock ==
    IsSome(safetyOut) =>
        LET in == Val(safetyIn)
            out == Val(safetyOut)
        IN /\ out.canProceed = (out.errors = <<>>)
           /\ \A n \in DOMAIN out.errors :
                 out.errors[n].kind \in {"alreadyTaken", "dailyMax"}
           /\ \A n \in DOMAIN out.warnings :
                 out.warnings[n].kind \in {"spacing", "early", "food"}
           /\ (/\ in.m.frequency = "twice daily"
               /\ Len(in.m.times) = 2
               /\ in.status = "taken"
               /\ in.time = 9 * 60 + 30
               /\ in.m.doseStatus = Put(EmptyLedger, Key(in.date, 9 * 60), "taken")) =>
                 /\ out.canProceed
                 /\ HasKind(out.warnings, "spacing")

C7_Witness ==
    /\ IsSome(safetyOut)
    /\ Val(safetyIn).m.frequency = "twice daily"
    /\ Len(Val(safetyIn).m.times) = 2
    /\ Val(safetyIn).status = "taken"
    /\ Val(safetyIn).time = 9 * 60 + 30
    /\ Val(safetyIn).m.doseStatus =
          Put(EmptyLedger, Key(Val(safetyIn).date, 9 * 60), "taken")
    /\ Val(safetyIn).m.food = "Without food"
    /\ Val(safetyOut).canProceed
    /\ Val(safetyOut).warnings = <<SpacingWarning(5, 2), FoodWarning>>

(* C8: checkDoseSafety emits the spacing warning whenever the proposed instant
   is less than the minimum spacing of the medication's frequency text
   (getRecommendedSpacing: 2 hours by default, 4/6/8/12 hours by phrase) after
   the latest Taken entry of the medication that precedes it. *)
C8_SpacingFromFrequency ==
    IsSome(safetyOut) =>
        LET in == Val(safetyIn)
            out == Val(safetyOut)
            proposed == ParseLocal(in.date, in.time)
            earlier == {t \in {ParseLocal(k[1], k[2]) : k \in TakenKeys(in.m)} :
                           t < proposed}
        IN (/\ StatusOf(in.m, Key(in.date, in.time)) # "taken"
            /\ earlier # {}
            /\ proposed - MostRecent(earlier) < getRecommendedSpacing(in.m) * 60) =>
               HasKind(out.warnings, "spacing")

----------------------------------------------------------------------------
(* The PRN gate: canTakePRN and recordPRNDose *)

\* lastTakenTime holds currentTime.toISOString(), which names the instant
\* exactly; new Date(lastTakenTime) reads the same instant back.
ToISOString(t) == t
ParseISO(str) == str

\* Math.ceil(minutes / 60) for minutes > 0
CeilHours(minutes) == (minutes + 59) \div 60

\* setDate(getDate() + 1); setHours(0, 0, 0, 0): the next local midnight
Tomorrow(currentTime) == StartOfLocalDay(currentTime + MinutesPerDay)

Allowed == [canTake |-> TRUE, reason |-> None, nextAvailableTime |-> None]
DailyLimitReached(cfg, tomorrow) ==
    [canTake |-> FALSE,
     reason |-> Some([kind |-> "dailyLimit", maxPerDay |-> cfg.maxPerDay]),
     nextAvailableTime |-> Some(tomorrow)]
IntervalNotMet(hours, nextAvailable) ==
    [canTake |-> FALSE,
     reason |-> Some([kind |-> "minInterval", waitHours |-> hours]),
     nextAvailableTime |-> Some(nextAvailable)]

\* the minimum-interval check of canTakePRN
IntervalCheck_FromNow(cfg, currentTime) ==
    IF IsSome(cfg.lastTakenTime)
    THEN LET lastTaken == ParseISO(Val(cfg.lastTakenTime))
             since == currentTime - lastTaken
         IN IF since < cfg.minIntervalHours * 60
            THEN IntervalNotMet(CeilHours(cfg.minIntervalHours * 60 - since),
                                currentTime + cfg.minIntervalHours * 60)
            ELSE Allowed
    ELSE Allowed

IntervalCheck(cfg, currentTime) ==
    IF IsSome(cfg.lastTakenTime)
    THEN LET lastTaken == ParseISO(Val(cfg.lastTakenTime))
             \* timeSinceLastDose, in minutes
             since == currentTime - lastTaken
         IN IF since < cfg.minIntervalHours * 60
            THEN IntervalNotMet(CeilHours(cfg.minIntervalHours * 60 - since),
                                lastTaken + cfg.minIntervalHours * 60)
            ELSE Allowed
    ELSE Allowed

canTakePRN_IntervalFirst(cfg, currentTime) ==
    LET today == ToISODate(currentTime)
    IN IF cfg.resetDate # today THEN Allowed
       ELSE IF ~IntervalCheck(cfg, currentTime).canTake
            THEN IntervalCheck(cfg, currentTime)
            ELSE IF cfg.takenToday >= cfg.maxPerDay
                 THEN DailyLimitReached(cfg, Tomorrow(currentTime))
                 ELSE Allowed

canTakePRN_LimitExceeded(cfg, currentTime) ==
    LET today == ToISODate(currentTime)
    IN IF cfg.resetDate # today THEN Allowed
       ELSE IF cfg.takenToday > cfg.maxPerDay
            THEN DailyLimitReached(cfg, Tomorrow(currentTime))
            ELSE IntervalCheck(cfg, currentTime)

\* canTakePRN(medication, prnConfig, currentTime); medication is never read
canTakePRN(cfg, currentTime) ==
    LET today == ToISODate(currentTime)
    IN IF cfg.resetDate # today THEN Allowed
       ELSE IF cfg.takenToday >= cfg.maxPerDay
            THEN DailyLimitReached(cfg, Tomorrow(currentTime))
            ELSE IntervalCheck(cfg, currentTime)

recordPRNDose_KeepsDate(cfg, currentTime) ==
    IF cfg.resetDate # ToISODate(currentTime)
    THEN [cfg EXCEPT !.takenToday = 1,
                     !.lastTakenTime = Some(ToISOString(currentTime))]
    ELSE [cfg EXCEPT !.takenToday = cfg.takenToday + 1,
                     !.lastTakenTime = Some(ToISOString(currentTime))]

\* recordPRNDose(prnConfig, currentTime)
recordPRNDose(cfg, currentTime) ==
    LET today == ToISODate(currentTime)
    IN IF cfg.resetDate # today
       THEN [cfg EXCEPT !.takenToday = 1,
                        !.lastTakenTime = Some(ToISOString(currentTime)),
                        !.resetDate = today]
       ELSE [cfg EXCEPT !.takenToday = cfg.takenToday + 1,
                        !.lastTakenTime = Some(ToISOString(currentTime))]

----------------------------------------------------------------------------
(* SpecPRN: one as-needed medication, its gate asked and its doses recorded
   as the clock moves *)

\* the clock starts at 22:00 UTC of the first day and moves by half hours
PRNStart == FirstDay * MinutesPerDay + 22 * 60
PRNTick == 30
PRNHorizon == PRNStart + MaxTicks * PRNTick

\* the configurations tried: getDefaultPRNConfig's 4 hours between doses, or 1,
\* and a daily maximum of 1 or 2 (the default is 4)
PRNInitialConfigs ==
    [medicationId : {"m1"},
     minIntervalHours : {1, 4},
     maxPerDay : {1, 2},
     takenToday : 0 .. 3,
     lastTakenTime : {None, Some(ToISOString(PRNStart - 30)),
                      Some(ToISOString(PRNStart - 5 * 60))},
     resetDate : {FirstDay - 1, FirstDay}]

PRNInit ==
    /\ tz \in TimeZones
    /\ now = PRNStart
    /\ prnConfig \in PRNInitialConfigs
    /\ prnOut = None
    /\ medications = <<>>
    /\ IdleApp /\ IdleLedgerObs /\ IdleSafety /\ IdleReminder /\ IdleCall
    /\ IdleUndo

\* time passes
PRNAdvance ==
    /\ now + PRNTick <= PRNHorizon
    /\ now' = now + PRNTick
    /\ prnOut' = None
    /\ UNCHANGED <<tz, appVars, ledgerObs, safetyVars, serviceVars, prnConfig>>

\* canTakePRN is asked at the current time
AskPRN ==
    /\ prnOut = None
    /\ prnOut' = Some(canTakePRN(prnConfig, now))
    /\ UNCHANGED <<tz, now, appVars, ledgerObs, safetyVars, serviceVars, prnConfig>>

\* one call of recordPRNDose at the current time
RecordPRN ==
    /\ prnConfig' = recordPRNDose(prnConfig, now)
    /\ prnOut' = None
    /\ UNCHANGED <<tz, now, appVars, ledgerObs, safetyVars, serviceVars>>

\* a dose is recorded after the gate allowed it
TakePRN ==
    /\ IsSome(prnOut)
    /\ Val(prnOut).canTake
    /\ RecordPRN

PRNNext == PRNAdvance \/ AskPRN \/ TakePRN

SpecPRN == PRNInit /\ [][PRNNext]_vars

(* C9: asked with resetDate equal to today's date and takenToday >= maxPerDay,
   canTakePRN answers canTake = FALSE with nextAvailableTime the next 00:00
   on the clock after the current time, whatever lastTakenTime is. *)
C9_DailyLimit ==
    (/\ IsSome(prnOut)
     /\ prnConfig.resetDate = ToISODate(now)
     /\ prnConfig.takenToday >= prnConfig.maxPerDay) =>
        LET out == Val(prnOut)
        IN /\ out.canTake = FALSE
           /\ IsSome(out.reason) /\ Val(out.reason).kind = "dailyLimit"
           /\ IsSome(out.nextAvailableTime)
           /\ LET next == Val(out.nextAvailableTime)
              IN /\ LocalClock(next) = 0
                 /\ next > now
                 /\ next - now <= MinutesPerDay

\* the daily limit answered while the last dose was less than the minimum
\* interval ago, in a time zone other than UTC
C9_Witness ==
    /\ IsSome(prnOut)
    /\ prnConfig.resetDate = ToISODate(now)
    /\ prnConfig.takenToday > prnConfig.maxPerDay
    /\ IsSome(prnConfig.lastTakenTime)
    /\ now - ParseISO(Val(prnConfig.lastTakenTime)) < prnConfig.minIntervalHours * 60
    /\ tz # 0
    /\ Val(prnOut).canTake = FALSE

(* C10: asked with resetDate equal to today and takenToday < maxPerDay,
   canTakePRN answers canTake = FALSE when lastTakenTime is less than
   minIntervalHours before the current time, with nextAvailableTime =
   lastTakenTime + minIntervalHours and the remaining hours rounded up in the
   reason; it answers canTake = TRUE when at least minIntervalHours have passed
   or lastTakenTime is unset. *)
C10_MinimumInterval ==
    (/\ IsSome(prnOut)
     /\ prnConfig.resetDate = ToISODate(now)
     /\ prnConfig.takenToday < prnConfig.maxPerDay) =>
        LET out == Val(prnOut)
            minutes == prnConfig.minIntervalHours * 60
        IN IF /\ IsSome(prnConfig.lastTakenTime)
              /\ now - Val(prnConfig.lastTakenTime) < minutes
           THEN LET last == Val(prnConfig.lastTakenTime)
                    remaining == minutes - (now - last)
                IN /\ out.canTake = FALSE
                   /\ out.nextAvailableTime = Some(last + minutes)
                   /\ IsSome(out.reason)
                   /\ Val(out.reason).kind = "minInterval"
                   /\ (Val(out.reason).waitHours - 1) * 60 < remaining
                   /\ remaining <= Val(out.reason).waitHours * 60
           ELSE /\ out.canTake = TRUE
                /\ out.nextAvailableTime = None

\* a denial with a whole number of hours left and one with a fraction left
C10_Witness ==
    /\ IsSome(prnOut)
    /\ prnConfig.resetDate = ToISODate(now)
    /\ prnConfig.takenToday < prnConfig.maxPerDay
    /\ IsSome(prnConfig.lastTakenTime)
    /\ Val(prnOut).canTake = FALSE
    /\ Val(Val(prnOut).reason) = [kind |-> "minInterval", waitHours |-> 3]
    /\ now - Val(prnConfig.lastTakenTime) = 90
    /\ prnConfig.takenToday = 1

----------------------------------------------------------------------------
(* SpecPRNRecord: recordPRNDose called at any time, the gate asked or not *)

\* recordPRNDose has no guard of its own
ForcePRN ==
    /\ prnConfig.takenToday < MaxTaken
    /\ RecordPRN

PRNRecordNext == PRNAdvance \/ AskPRN \/ ForcePRN

SpecPRNRecord == PRNInit /\ [][PRNRecordNext]_vars

(* C11: recordPRNDose sets takenToday to 1 and resetDate to today's date when
   resetDate differs from today's date, otherwise adds exactly 1 to takenToday
   and keeps resetDate; in both cases lastTakenTime becomes the current time
   and minIntervalHours, maxPerDay and medicationId are unchanged. *)
C11_RecordPRNDose ==
    [][(prnConfig' # prnConfig) =>
          /\ IF prnConfig.resetDate # ToISODate(now)
             THEN /\ prnConfig'.takenToday = 1
                  /\ prnConfig'.resetDate = ToISODate(now)
             ELSE /\ prnConfig'.takenToday = prnConfig.takenToday + 1
                  /\ prnConfig'.resetDate = prnConfig.resetDate
          /\ prnConfig'.lastTakenTime = Some(now)
          /\ prnConfig'.minIntervalHours = prnConfig.minIntervalHours
          /\ prnConfig'.maxPerDay = prnConfig.maxPerDay
          /\ prnConfig'.medicationId = prnConfig.medicationId]_vars

\* a dose was recorded after the date changed, and a second one the same day
\* beyond the daily maximum
C11_Witness ==
    /\ prnConfig.resetDate = FirstDay + 1
    /\ prnConfig.lastTakenTime = Some(now)
    /\ prnConfig.takenToday = 3
    /\ prnConfig.maxPerDay = 2

(* C12: when recordPRNDose is only called at an instant where canTakePRN has
   answered canTake = TRUE, a dose is recorded at least minIntervalHours after
   the dose recorded before it, a change of calendar day between the two
   included. *)
C12_IntervalBetweenDoses ==
    [][(/\ prnConfig' # prnConfig
        /\ IsSome(prnConfig.lastTakenTime)
        /\ prnConfig.takenToday >= 1
        /\ prnConfig.resetDate = ToISODate(Val(prnConfig.lastTakenTime))) =>
          now - Val(prnConfig.lastTakenTime) >= prnConfig.minIntervalHours * 60]_vars

----------------------------------------------------------------------------
(* The reminder service: calculateReminderStages, shouldSendReminder,
   updateReminderStage, resetReminderStage *)

\* getMinutes(): the minute of the local hour
GetMinutes(t) == (t + tz) % 60

SetMinutes_NoCarry(t, minutes) == t - GetMinutes(t) + (minutes % 60)

\* setMinutes(minutes): minutes past 59 carry into the hours and the date
SetMinutes(t, minutes) == t - GetMinutes(t) + minutes

SnoozeOptions == <<5, 10, 15>>

ReminderStage(stage, scheduledTime, reminderTime) ==
    [stage |-> stage, scheduledTime |-> scheduledTime,
     reminderTime |-> ToISOString(reminderTime), snoozeOptions |-> SnoozeOptions]

\* calculateReminderStages(medication, scheduledTime, date, behavior); neither
\* medication nor behavior is read
calculateReminderStages(scheduledTime, date) ==
    LET scheduledDateTime == ParseLocal(date, scheduledTime)
        followUpTime == SetMinutes(scheduledDateTime, GetMinutes(scheduledDateTime) + 15)
        checkInTime == SetMinutes(scheduledDateTime, GetMinutes(scheduledDateTime) + 30)
    IN <<ReminderStage(0, scheduledTime, scheduledDateTime),
         ReminderStage(1, scheduledTime, followUpTime),
         ReminderStage(2, scheduledTime, checkInTime)>>

\* behavior.reminderStage || 0, read from the medication object itself: a
\* Medication has no reminderStage property, so the read gives undefined
CurrentStage(m) ==
    IF "reminderStage" \in DOMAIN m THEN m.reminderStage ELSE 0

shouldSendReminder_IgnoresEntry(m, date, time, reminderStage) ==
    reminderStage >= CurrentStage(m)

\* shouldSendReminder(medication, date, time, reminderStage)
shouldSendReminder(m, date, time, reminderStage) ==
    LET status == StatusOf(m, Key(date, time))
    IN IF status = "taken" \/ status = "skipped"
       THEN FALSE
       ELSE reminderStage >= CurrentStage(m)

\* the behaviour updateNotificationBehavior starts from when none is kept
DefaultBehavior(medicationId) ==
    [medicationId |-> medicationId, snoozeCount |-> 0, lateDoseCount |-> 0,
     reminderStage |-> None, lastReminderTime |-> None]

\* updateReminderStage(behavior, newStage), called at instant t
updateReminderStage(b, newStage, t) ==
    [b EXCEPT !.reminderStage = Some(newStage),
              !.lastReminderTime = Some(ToISOString(t)),
              !.snoozeCount = b.snoozeCount + 1]

\* resetReminderStage(behavior)
resetReminderStage(b) ==
    [b EXCEPT !.reminderStage = Some(0), !.lastReminderTime = None]

\* the stage a behaviour records; a behaviour never advanced records none
ReminderStageOf(b) == IF IsSome(b.reminderStage) THEN Val(b.reminderStage) ELSE 0

----------------------------------------------------------------------------
(* SpecStages: calculateReminderStages applied to scheduled times around the
   hour and the day boundaries *)

StageTimes == {0, 8 * 60, 8 * 60 + 30, 8 * 60 + 50, 18 * 60 + 45, 19 * 60,
               23 * 60 + 30, 23 * 60 + 40, 23 * 60 + 59}

StagesInit ==
    /\ tz \in TimeZones
    /\ now = ParseLocal(FirstDay, 0)
    /\ \E d \in FirstDay .. FirstDay + NumDays, t \in StageTimes :
          callIn = Some([fn |-> "calculateReminderStages",
                         scheduledTime |-> t, date |-> d])
    /\ callOut = None
    /\ medications = <<>>
    /\ IdleApp /\ IdleLedgerObs /\ IdleSafety /\ IdlePRN /\ IdleReminder
    /\ IdleUndo

CallStages ==
    /\ callOut = None
    /\ callOut' = Some(calculateReminderStages(Val(callIn).scheduledTime,
                                               Val(callIn).date))
    /\ UNCHANGED <<tz, now, appVars, ledgerObs, safetyVars, prnVars,
                   reminderVars, callIn, undoVars>>

StagesNext == CallStages

SpecStages == StagesInit /\ [][StagesNext]_vars

(* C13: calculateReminderStages returns exactly three stages, numbered 0, 1, 2
   in that order, at the scheduled instant, 15 minutes and 30 minutes after it
   (the clock carrying into the next hour or day), each with the snooze
   options 5, 10, 15 and the scheduled time it was given. *)
C13_ThreeStages ==
    IsSome(callOut) =>
        LET in == Val(callIn)
            out == Val(callOut)
        IN /\ Len(out) = 3
           /\ \A n \in 1 .. 3 :
                 LET wall == in.scheduledTime + 15 * (n - 1)
                 IN /\ out[n].stage = n - 1
                    /\ out[n].scheduledTime = in.scheduledTime
                    /\ out[n].snoozeOptions = <<5, 10, 15>>
                    /\ out[n].reminderTime
                          = ParseLocal(in.date, in.scheduledTime) + 15 * (n - 1)
                    /\ LocalClock(out[n].reminderTime) = wall % MinutesPerDay
                    /\ ToISODate(StartOfLocalDay(out[n].reminderTime) + tz)
                          = in.date + wall \div MinutesPerDay

\* the stages of 23:40: the follow-up carries into the next hour, the check-in
\* into the next day
C13_Witness ==
    /\ IsSome(callOut)
    /\ Val(callIn).scheduledTime = 23 * 60 + 40
    /\ tz # 0
    /\ LocalClock(Val(callOut)[2].reminderTime) = 23 * 60 + 55
    /\ LocalClock(Val(callOut)[3].reminderTime) = 10

----------------------------------------------------------------------------
(* SpecReminder: the notification timer of App, the Dashboard's dose buttons
   and the reminder service's stage functions, for one medication *)

\* the dose notification of one medication in one timer callback
DoseNotification(m, todayStr, currentTime) ==
    IF (\E n \in DOMAIN m.times : m.times[n] = currentTime)
       /\ Key(todayStr, currentTime) \notin DOMAIN m.doseStatus
    THEN <<[kind |-> "dose", id |-> m.id, date |-> todayStr, time |-> currentTime]>>
    ELSE <<>>

\* quantity <= refillThreshold, both defined
RefillDue(m) ==
    /\ IsSome(m.quantity) /\ IsSome(m.refillThreshold)
    /\ Val(m.quantity) <= Val(m.refillThreshold)

RefillStocked(m) ==
    /\ IsSome(m.quantity) /\ IsSome(m.refillThreshold)
    /\ Val(m.quantity) > Val(m.refillThreshold)

\* the refill notification of one medication, sent around 09:00
RefillNotification(m, currentTime) ==
    IF currentTime = 9 * 60 /\ RefillDue(m) /\ ~m.refillNotified
    THEN <<[kind |-> "refill", id |-> m.id, date |-> 0, time |-> currentTime]>>
    ELSE <<>>

\* refillNotified after the callback's setMedications updaters have run
RefillNotified(m, currentTime) ==
    IF currentTime = 9 * 60 /\ RefillDue(m) /\ ~m.refillNotified THEN TRUE
    ELSE IF currentTime = 9 * 60 /\ RefillStocked(m) /\ m.refillNotified THEN FALSE
    ELSE m.refillNotified

RECURSIVE TickNotifications(_, _, _, _)
\* medications.forEach: the notifications of meds[n..], in order
TickNotifications(meds, n, todayStr, currentTime) ==
    IF n > Len(meds) THEN <<>>
    ELSE DoseNotification(meds[n], todayStr, currentTime)
         \o RefillNotification(meds[n], currentTime)
         \o TickNotifications(meds, n + 1, todayStr, currentTime)

ReminderInit ==
    /\ tz \in TimeZones
    /\ now = ParseLocal(FirstDay, 9 * 60)
    /\ medications = <<Medication("m1", "Aspirin", "twice daily", "With food",
                                  <<9 * 60>>, Some(2), Some(1))>>
    /\ isModalOpen = FALSE
    /\ editingMedication = None
    /\ med = None
    /\ todayString = RenderToday(now)
    /\ nextId = 1
    /\ behavior = Some(DefaultBehavior("m1"))
    /\ notifications = <<>>
    /\ IdleLedgerObs /\ IdleSafety /\ IdlePRN /\ IdleCall
    /\ IdleUndo

\* one callback of the setInterval(..., 60000) of App's notification effect,
\* permission granted. A callback runs no earlier than its due time but may run
\* late, so two callbacks may read the same clock minute.
Tick ==
    /\ Len(notifications) < MaxNotifications
    /\ LET currentTime == LocalClock(now)
           todayStr == ToISODate(now)
       IN /\ notifications' = notifications
                \o TickNotifications(medications, 1, todayStr, currentTime)
          /\ medications' = [n \in DOMAIN medications |->
                [medications[n] EXCEPT
                    !.refillNotified = RefillNotified(medications[n], currentTime)]]
    /\ todayString' = IF medications' # medications THEN RenderToday(now)
                      ELSE todayString
    /\ UNCHANGED <<tz, now, isModalOpen, editingMedication, med, nextId,
                   ledgerObs, safetyVars, prnVars, behavior, callVars, undoVars>>

\* a snooze: updateReminderStage moves the behaviour to a stage
Snooze ==
    /\ Val(behavior).snoozeCount < MaxSnooze
    /\ \E newStage \in 0 .. 2 :
          behavior' = Some(updateReminderStage(Val(behavior), newStage, now))
    /\ UNCHANGED <<tz, now, appVars, ledgerObs, safetyVars, prnVars,
                   notifications, callVars, undoVars>>

\* resetReminderStage applied to the behaviour
ResetStage ==
    /\ behavior' = Some(resetReminderStage(Val(behavior)))
    /\ UNCHANGED <<tz, now, appVars, ledgerObs, safetyVars, prnVars,
                   notifications, callVars, undoVars>>

\* shouldSendReminder asked for a slot and a stage
AskReminder ==
    /\ \E d \in {todayString}, n \in DOMAIN medications[1].times,
          stage \in 0 .. 2 :
          /\ callIn' = Some([fn |-> "shouldSendReminder", date |-> d,
                             time |-> medications[1].times[n], stage |-> stage])
          /\ callOut' = Some(shouldSendReminder(medications[1], d,
                                                medications[1].times[n], stage))
    /\ UNCHANGED <<tz, now, appVars, ledgerObs, safetyVars, prnVars, reminderVars, undoVars>>

ReminderNext ==
    \/ Advance
    \/ RenderDashboard
    \/ Tick
    \/ Snooze
    \/ ResetStage
    \/ AskReminder
    \/ \E t \in 1 .. MaxTimes : ClickTaken(1, t)
    \/ \E t \in 1 .. MaxTimes : ClickSkip(1, t)

SpecReminder == ReminderInit /\ [][ReminderNext]_vars

\* the dose notifications a step has added
NewDoseNotifications ==
    {notifications'[n] : n \in {x \in DOMAIN notifications' :
                                   /\ x > Len(notifications)
                                   /\ notifications'[x].kind = "dose"}}

(* C14: while a slot has a Taken or Skipped entry, shouldSendReminder answers
   FALSE for it at every stage index 0, 1, 2, whatever the behaviour's stage
   and however long the entry has existed; and the timer sends no dose
   notification for a slot that has an entry. *)
C14_NoReminderOnceResolved ==
    /\ [](\A i \in DOMAIN medications :
            \A k \in DOMAIN medications[i].doseStatus, stage \in 0 .. 2 :
                shouldSendReminder(medications[i], k[1], k[2], stage) = FALSE)
    /\ [][\A note \in NewDoseNotifications :
            \A i \in DOMAIN medications :
                medications[i].id = note.id =>
                    Key(note.date, note.time) \notin DOMAIN medications[i].doseStatus]_vars

\* the timer notified for a slot, the slot was then marked, the behaviour has
\* been moved to a later stage, and shouldSendReminder was asked for the slot
C14_Witness ==
    /\ IsSome(callOut) /\ Val(callOut) = FALSE
    /\ Val(callIn).stage = 2
    /\ Key(Val(callIn).date, Val(callIn).time) \in DOMAIN medications[1].doseStatus
    /\ \E n \in DOMAIN notifications :
          /\ notifications[n].kind = "dose"
          /\ notifications[n].date = Val(callIn).date
          /\ notifications[n].time = Val(callIn).time
    /\ ReminderStageOf(Val(behavior)) = 1
    /\ now > ParseLocal(FirstDay, 9 * 60)

(* C15: for a slot with no ledger entry, shouldSendReminder answers TRUE
   exactly when the stage index is at least the reminderStage recorded in the
   medication's NotificationBehavior; after updateReminderStage has moved the
   behaviour to stage 2 it answers FALSE for stage indices 0 and 1. *)
C15_StageFromBehavior ==
    \A i \in DOMAIN medications :
        \A n \in DOMAIN medications[i].times, stage \in 0 .. 2 :
            Key(todayString, medications[i].times[n]) \notin DOMAIN medications[i].doseStatus =>
                shouldSendReminder(medications[i], todayString,
                                   medications[i].times[n], stage)
                    = (stage >= ReminderStageOf(Val(behavior)))

(* C16: a step in which the ledger commits a slot to Taken or Skipped leaves
   the medication's reminder stage at 0 and its lastReminderTime cleared. *)
C16_CommitResetsStage ==
    [][\A i \in DOMAIN medications :
          (\E k \in DOMAIN medications'[i].doseStatus :
                StatusOf(medications[i], k) # medications'[i].doseStatus[k]) =>
              /\ ReminderStageOf(Val(behavior')) = 0
              /\ Val(behavior').lastReminderTime = None]_vars

(* C17: the timer dispatches the dose reminder of a slot at most once, two
   callbacks reading the same clock minute included. *)
C17_OneReminderPerSlot ==
    \A a, b \in DOMAIN notifications :
        (a < b /\ notifications[a].kind = "dose") =>
            notifications[a] # notifications[b]

----------------------------------------------------------------------------
(* The adherence service: calculateAdherenceStreak *)

Max(a, b) == IF a >= b THEN a ELSE b

\* takenDates: the dates with a Taken entry in any medication's ledger
TakenDates(meds) ==
    UNION {{k[1] : k \in TakenKeys(meds[i])} : i \in DOMAIN meds}

\* totalDosesTaken
TotalDosesTaken(meds) ==
    LET all == UNION {{<<i, k>> : k \in TakenKeys(meds[i])} : i \in DOMAIN meds}
    IN Cardinality(all)

RECURSIVE CurrentStreak(_, _)
\* the while loop over checkDate, a local midnight read as toISOString's date
CurrentStreak(takenDates, checkDate) ==
    IF ToISODate(checkDate) \in takenDates
    THEN 1 + CurrentStreak(takenDates, StartOfLocalDay(checkDate - MinutesPerDay))
    ELSE 0

RECURSIVE SortedReversed(_)
\* Array.from(takenDates).sort().reverse()
SortedReversed(S) ==
    IF S = {} THEN <<>>
    ELSE LET top == CHOOSE d \in S : \A e \in S : e <= d
         IN <<top>> \o SortedReversed(S \ {top})

RECURSIVE StreakFold(_, _, _, _)
\* sortedDates.forEach from index n on: <<maxStreak, tempStreak>> at the end.
\* new Date("YYYY-MM-DD") is the UTC midnight of the date.
StreakFold(sortedDates, n, maxStreak, tempStreak) ==
    IF n > Len(sortedDates) THEN <<maxStreak, tempStreak>>
    ELSE IF n = 1 THEN StreakFold(sortedDates, 2, maxStreak, 1)
    ELSE LET daysDiff == ((sortedDates[n - 1] - sortedDates[n]) * MinutesPerDay)
                            \div MinutesPerDay
         IN IF daysDiff = 1
            THEN StreakFold(sortedDates, n + 1, maxStreak, tempStreak + 1)
            ELSE StreakFold(sortedDates, n + 1, Max(maxStreak, tempStreak), 1)

LongestStreak_ClosedRunsOnly(maxStreak, tempStreak, currentStreak) ==
    Max(maxStreak, currentStreak)

\* Math.max(maxStreak, tempStreak, currentStreak)
LongestStreak(maxStreak, tempStreak, currentStreak) ==
    Max(Max(maxStreak, tempStreak), currentStreak)

\* the milestones list: days against longestStreak, doses against the total
Milestones(longestStreak, totalDosesTaken, t) ==
    LET targets == <<[type |-> "days", target |-> 7, id |-> "week1"],
                     [type |-> "days", target |-> 30, id |-> "month1"],
                     [type |-> "days", target |-> 100, id |-> "century"],
                     [type |-> "doses", target |-> 50, id |-> "doses50"],
                     [type |-> "doses", target |-> 100, id |-> "doses100"],
                     [type |-> "doses", target |-> 500, id |-> "doses500"]>>
    IN [n \in DOMAIN targets |->
          LET achieved == IF targets[n].type = "days"
                          THEN longestStreak >= targets[n].target
                          ELSE totalDosesTaken >= targets[n].target
          IN [id |-> targets[n].id, type |-> targets[n].type,
              target |-> targets[n].target, achieved |-> achieved,
              achievedDate |-> IF achieved THEN Some(ToISOString(t)) ELSE None]]

\* calculateAdherenceStreak(medications), called at instant t
calculateAdherenceStreak(meds, t) ==
    LET today == StartOfLocalDay(t)
        takenDates == TakenDates(meds)
        currentStreak == CurrentStreak(takenDates, today)
        fold == StreakFold(SortedReversed(takenDates), 1, 0, 0)
        longestStreak == LongestStreak(fold[1], fold[2], currentStreak)
    IN [currentStreak |-> currentStreak,
        longestStreak |-> longestStreak,
        \* the last date the loop assigned, or today's
        lastStreakDate |-> IF currentStreak > 0
                           THEN ToISODate(today) - (currentStreak - 1)
                           ELSE ToISODate(today),
        totalDosesTaken |-> TotalDosesTaken(meds),
        milestones |-> Milestones(longestStreak, TotalDosesTaken(meds), t)]

----------------------------------------------------------------------------
(* SpecStreak: calculateAdherenceStreak applied to every ledger over a window
   of days, at 10:00 of the window's last day *)

StreakWindow == FirstDay .. FirstDay + StreakDays - 1
StreakToday == FirstDay + StreakDays - 1

\* one 09:00 slot per day, Taken, Skipped or without entry
StreakLedgers ==
    UNION {[{Key(d, 9 * 60) : d \in D} -> DoseStatus] : D \in SUBSET StreakWindow}

StreakInit ==
    /\ tz \in TimeZones
    /\ now = ParseLocal(StreakToday, 10 * 60)
    /\ \E l1 \in StreakLedgers,
          l2 \in {EmptyLedger, Put(EmptyLedger, Key(StreakToday - 1, 21 * 60), "taken")} :
          medications =
            <<[Medication("m1", "Aspirin", "once daily", "With food",
                          <<9 * 60>>, None, None) EXCEPT !.doseStatus = l1],
              [Medication("m2", "Vitamin D", "once daily", "With food",
                          <<21 * 60>>, None, None) EXCEPT !.doseStatus = l2]>>
    /\ callIn = None
    /\ callOut = None
    /\ IdleApp /\ IdleLedgerObs /\ IdleSafety /\ IdlePRN /\ IdleReminder
    /\ IdleUndo

CallStreak ==
    /\ callOut = None
    /\ callIn' = Some([fn |-> "calculateAdherenceStreak"])
    /\ callOut' = Some(calculateAdherenceStreak(medications, now))
    /\ UNCHANGED <<tz, now, appVars, ledgerObs, safetyVars, prnVars, reminderVars, undoVars>>

StreakNext == CallStreak

SpecStreak == StreakInit /\ [][StreakNext]_vars

\* the calendar date on the user's clock
LocalDate(t) == (t + tz) \div MinutesPerDay

\* the dates with at least one Taken entry, read off the ledgers directly
DaysWithTaken ==
    {d \in StreakWindow :
        \E i \in DOMAIN medications : \E k \in DOMAIN medications[i].doseStatus :
            k[1] = d /\ medications[i].doseStatus[k] = "taken"}

(* C18: currentStreak is the number of consecutive calendar days, counted
   backward from today, that each have at least one Taken entry in some
   medication's ledger, stopping at the first day with none; Skipped entries
   do not count. *)
C18_CurrentStreak ==
    IsSome(callOut) =>
        LET n == Val(callOut).currentStreak
            today == LocalDate(now)
        IN /\ \A j \in 0 .. n - 1 : today - j \in DaysWithTaken
           /\ today - n \notin DaysWithTaken

(* C19: longestStreak is the length of the longest run of consecutive calendar
   days that each have a Taken entry, over the whole ledger, and is never less
   than currentStreak. *)
C19_LongestStreak ==
    IsSome(callOut) =>
        LET out == Val(callOut)
            IsRun(d, n) == \A j \in 0 .. n - 1 : d + j \in DaysWithTaken
            runs == {n \in 0 .. StreakDays : \E d \in StreakWindow : IsRun(d, n)}
        IN /\ out.longestStreak \in runs
           /\ \A n \in runs : n <= out.longestStreak
           /\ out.longestStreak >= out.currentStreak

\* Taken on the first three days and on the last, Skipped on the fourth: the
\* longest run is the oldest one
C19_Witness ==
    /\ IsSome(callOut)
    /\ DaysWithTaken = {FirstDay, FirstDay + 1, FirstDay + 2, StreakToday}
    /\ StatusOf(medications[1], Key(StreakToday - 1, 9 * 60)) = "skipped"
    /\ Val(callOut).longestStreak = 3
    /\ Val(callOut).currentStreak = 1

----------------------------------------------------------------------------
(* The recovery service: getMissedDoseRecovery *)

\* criticalMeds.some(critical => name.toLowerCase().includes(critical)), for
\* the names tried
IsCritical(name) == name \in {"Warfarin", "Insulin glargine"}

RECURSIVE FindLater(_, _, _, _)
\* medication.times.find: the first time of the missed date after the missed one
FindLater(times, n, missedDate, missedDateTime) ==
    IF n > Len(times) THEN None
    ELSE IF ParseLocal(missedDate, times[n]) > missedDateTime THEN Some(times[n])
    ELSE FindLater(times, n + 1, missedDate, missedDateTime)

Guidance(m, missedDate, missedTime, text, action, severity) ==
    [medicationId |-> m.id, medicationName |-> m.name, missedDate |-> missedDate,
     missedTime |-> missedTime, guidance |-> text, action |-> action,
     severity |-> severity, critical |-> FALSE]

\* getMissedDoseRecovery(medication, missedDate, missedTime), called at instant t
getMissedDoseRecovery(m, missedDate, missedTime, t) ==
    LET missedDateTime == ParseLocal(missedDate, missedTime)
        \* hoursSinceMissed, in minutes
        since == t - missedDateTime
        frequency == m.frequency
        isDaily == Includes(frequency, "daily") \/ Includes(frequency, "once")
        isTwiceDaily == Includes(frequency, "twice") \/ Includes(frequency, "bid")
        isMultipleDaily == \/ Includes(frequency, "three")
                           \/ Includes(frequency, "four")
                           \/ Includes(frequency, "qid")
        nextDoseTime == FindLater(m.times, 1, missedDate, missedDateTime)
        nextIsFar == /\ IsSome(nextDoseTime)
                     /\ ParseLocal(missedDate, Val(nextDoseTime)) - t > 4 * 60
        guidance ==
            IF since < 2 * 60 /\ ~isMultipleDaily
            THEN Some(Guidance(m, missedDate, missedTime,
                               [kind |-> "lessThan2"], "take_now", "low"))
            ELSE IF since >= 2 * 60 /\ since < 4 * 60
            THEN IF isDaily \/ isTwiceDaily
                 THEN Some(Guidance(m, missedDate, missedTime,
                                    [kind |-> "late", hours |-> RoundDiv(since, 60)],
                                    IF nextIsFar THEN "take_now" ELSE "skip",
                                    "medium"))
                 ELSE Some(Guidance(m, missedDate, missedTime,
                                    [kind |-> "lateMultiple",
                                     hours |-> RoundDiv(since, 60)],
                                    "skip", "medium"))
            ELSE IF since >= 4 * 60
            THEN IF isDaily
                 THEN Some(Guidance(m, missedDate, missedTime,
                                    [kind |-> "moreThan4"], "skip", "high"))
                 ELSE Some(Guidance(m, missedDate, missedTime,
                                    [kind |-> "moreThan4Other"], "consult", "high"))
            ELSE None
    IN IF IsCritical(m.name) /\ IsSome(guidance)
       THEN Some([Val(guidance) EXCEPT !.critical = TRUE, !.severity = "high",
                                       !.action = "consult"])
       ELSE guidance

----------------------------------------------------------------------------
(* SpecRecovery: getMissedDoseRecovery applied to a missed slot of the first
   day, from one to five hours late *)

RecoveryFrequencies == {"", "once daily", "twice daily", "three times daily",
                        "as needed"}
RecoveryTimesLists == {<<9 * 60>>, <<9 * 60, 21 * 60>>, <<9 * 60, 14 * 60>>}
RecoveryNames == {"Aspirin", "Warfarin"}
RecoveryDelays == {60, 119, 2 * 60, 3 * 60, 4 * 60 - 1, 4 * 60, 5 * 60}

RecoveryInit ==
    /\ tz \in TimeZones
    /\ \E frequency \in RecoveryFrequencies, times \in RecoveryTimesLists,
          name \in RecoveryNames, delay \in RecoveryDelays :
          \E n \in DOMAIN times :
             /\ callIn = Some([fn |-> "getMissedDoseRecovery",
                               m |-> Medication("m1", name, frequency, "With food",
                                                times, None, None),
                               missedDate |-> FirstDay, missedTime |-> times[n]])
             /\ now = ParseLocal(FirstDay, times[n]) + delay
    /\ callOut = None
    /\ medications = <<>>
    /\ IdleApp /\ IdleLedgerObs /\ IdleSafety /\ IdlePRN /\ IdleReminder
    /\ IdleUndo

CallRecovery ==
    /\ callOut = None
    /\ LET in == Val(callIn)
       IN callOut' = Some(getMissedDoseRecovery(in.m, in.missedDate,
                                                in.missedTime, now))
    /\ UNCHANGED <<tz, now, appVars, ledgerObs, safetyVars, prnVars,
                   reminderVars, callIn, undoVars>>

RecoveryNext == CallRecovery

SpecRecovery == RecoveryInit /\ [][RecoveryNext]_vars

(* C20: for a non-critical once-daily medication with a single schedule time,
   whose slot was missed at least 2 and less than 4 hours ago,
   getMissedDoseRecovery answers action take_now with severity medium. *)
C20_DailyTakeNow ==
    IsSome(callOut) =>
        LET in == Val(callIn)
            since == now - ParseLocal(in.missedDate, in.missedTime)
        IN (/\ in.m.frequency = "once daily"
            /\ in.m.name = "Aspirin"
            /\ Len(in.m.times) = 1
            /\ since >= 2 * 60 /\ since < 4 * 60) =>
               /\ IsSome(Val(callOut))
               /\ Val(Val(callOut)).action = "take_now"
               /\ Val(Val(callOut)).severity = "medium"

(* C21: for a medication whose name contains one of the critical names,
   getMissedDoseRecovery answers action consult with severity high, for every
   elapsed time and every frequency, a multiple-daily medication missed less
   than 2 hours ago included. *)
C21_CriticalAlwaysConsult ==
    (IsSome(callOut) /\ Val(callIn).m.name = "Warfarin") =>
            /\ IsSome(Val(callOut))
            /\ Val(Val(callOut)).action = "consult"
            /\ Val(Val(callOut)).severity = "high"

(* C22: for a non-critical medication the action and severity of
   getMissedDoseRecovery follow the decision table: under 2 hours and not
   multiple-daily, take_now / low; 2 to 4 hours, daily or twice-daily, take_now
   or skip / medium; 2 to 4 hours, multiple-daily, skip / medium; 4 hours or
   more, once-daily, skip / high; 4 hours or more, any other class,
   consult / high. *)
C22_DecisionTable ==
    IsSome(callOut) =>
        LET in == Val(callIn)
            since == now - ParseLocal(in.missedDate, in.missedTime)
            \* the frequency class the decision table is read with
            class == CASE in.m.frequency = "once daily" -> "daily"
                       [] in.m.frequency = "twice daily" -> "twice-daily"
                       [] in.m.frequency = "three times daily" -> "multiple-daily"
                       [] in.m.frequency = "as needed" -> "PRN"
                       [] OTHER -> "other"
            Answer(allowed, severity) ==
                /\ IsSome(Val(callOut))
                /\ Val(Val(callOut)).action \in allowed
                /\ Val(Val(callOut)).severity = severity
        IN \/ in.m.name # "Aspirin"
           \/ /\ (since < 2 * 60 /\ class # "multiple-daily") =>
                     Answer({"take_now"}, "low")
              /\ (since >= 2 * 60 /\ since < 4 * 60
                    /\ class \in {"daily", "twice-daily"}) =>
                     Answer({"take_now", "skip"}, "medium")
              /\ (since >= 2 * 60 /\ since < 4 * 60 /\ class = "multiple-daily") =>
                     Answer({"skip"}, "medium")
              /\ (since >= 4 * 60 /\ class = "daily") => Answer({"skip"}, "high")
              /\ (since >= 4 * 60 /\ class # "daily") => Answer({"consult"}, "high")

----------------------------------------------------------------------------
(* The behaviour service: analyzeBehavioralPatterns,
   calculateAdaptiveReminderTime *)

\* new Date(dateStr).getDay(): the local weekday of the date's UTC midnight, 0
\* for Sunday; day 0 of the epoch was a Thursday
GetDay(date) == (((date * MinutesPerDay + tz) \div MinutesPerDay) + 4) % 7

\* getTimeWindow(time)
getTimeWindow(time) ==
    LET hour == time \div 60
    IN IF hour >= 5 /\ hour < 12 THEN "morning"
       ELSE IF hour >= 12 /\ hour < 17 THEN "afternoon"
       ELSE IF hour >= 17 /\ hour < 21 THEN "evening"
       ELSE "bedtime"

\* !status: no value the ledger stores is falsy
Falsy(status) == status \in {NULL, Undefined, ""}

\* missedByDay[dayOfWeek]: the keys of the ledger whose status is falsy
MissedByDay(m, dayOfWeek) ==
    Cardinality({k \in DOMAIN m.doseStatus :
                    Falsy(m.doseStatus[k]) /\ GetDay(k[1]) = dayOfWeek})

\* lateByTimeWindow[window]: the Taken keys of the window
LateByTimeWindow(m, window) ==
    Cardinality({k \in TakenKeys(m) : getTimeWindow(k[2]) = window})

Windows == {"morning", "afternoon", "evening", "bedtime"}

\* the missed_day pattern of a medication, if any: the first entry of
\* missedByDay sorted by count, the lower weekday first among equals
MissedDayPatterns(m) ==
    LET days == {d \in 0 .. 6 : MissedByDay(m, d) > 0}
        most == {d \in days : \A e \in days :
                    \/ MissedByDay(m, e) < MissedByDay(m, d)
                    \/ MissedByDay(m, e) = MissedByDay(m, d) /\ d <= e}
    IN {<<[medicationId |-> m.id, patternType |-> "missed_day",
           dayOfWeek |-> d, frequency |-> MissedByDay(m, d)]>> :
            d \in {x \in most : MissedByDay(m, x) >= 3}}

\* the late_time patterns a medication may get: among windows of equal count
\* the one whose key came first in the ledger object wins, an order the ledger
\* as modelled does not keep
LateTimePatterns(m) ==
    LET used == {w \in Windows : LateByTimeWindow(m, w) > 0}
        most == {w \in used : \A v \in used :
                    LateByTimeWindow(m, v) <= LateByTimeWindow(m, w)}
    IN {<<[medicationId |-> m.id, patternType |-> "late_time",
           timeWindow |-> w, frequency |-> LateByTimeWindow(m, w)]>> :
            w \in {x \in most : LateByTimeWindow(m, x) >= 3}}

OrNone(S) == IF S = {} THEN {<<>>} ELSE S

RECURSIVE PatternsFrom(_, _)
\* medications.forEach from index n on: the pattern lists it may build
PatternsFrom(meds, n) ==
    IF n > Len(meds) THEN {<<>>}
    ELSE {a \o b \o c : a \in OrNone(MissedDayPatterns(meds[n])),
                        b \in OrNone(LateTimePatterns(meds[n])),
                        c \in PatternsFrom(meds, n + 1)}

\* analyzeBehavioralPatterns(medications): the pattern lists it may return
analyzeBehavioralPatterns(meds) == PatternsFrom(meds, 1)

----------------------------------------------------------------------------
(* SpecPatterns: analyzeBehavioralPatterns applied to the ledgers of one
   medication scheduled at 09:00 and 21:00 over PatternWeeks weeks and a day *)

PatternLastDay == FirstDay + 7 * PatternWeeks
PatternWindow == FirstDay .. PatternLastDay

\* the slots that may have an entry: 09:00 of the first weekday of the window
\* in every week, 09:00 and 21:00 of the weekday after it
PatternKeys ==
    {Key(FirstDay + 7 * w, 9 * 60) : w \in 0 .. PatternWeeks}
    \cup {Key(FirstDay + 1 + 7 * w, c) : w \in 0 .. PatternWeeks - 1,
                                         c \in {9 * 60, 21 * 60}}

PatternLedgers == UNION {[D -> DoseStatus] : D \in SUBSET PatternKeys}

PatternsInit ==
    /\ tz \in TimeZones
    /\ now = ParseLocal(PatternLastDay, 22 * 60)
    /\ \E l \in PatternLedgers :
          medications = <<[Medication("m1", "Aspirin", "twice daily", "With food",
                                      <<9 * 60, 21 * 60>>, None, None)
                              EXCEPT !.doseStatus = l]>>
    /\ callIn = None
    /\ callOut = None
    /\ IdleApp /\ IdleLedgerObs /\ IdleSafety /\ IdlePRN /\ IdleReminder
    /\ IdleUndo

CallPatterns ==
    /\ callOut = None
    /\ callIn' = Some([fn |-> "analyzeBehavioralPatterns"])
    /\ \E patterns \in analyzeBehavioralPatterns(medications) :
          callOut' = Some(patterns)
    /\ UNCHANGED <<tz, now, appVars, ledgerObs, safetyVars, prnVars, reminderVars, undoVars>>

PatternsNext == CallPatterns

SpecPatterns == PatternsInit /\ [][PatternsNext]_vars

(* C23: analyzeBehavioralPatterns emits, for a medication, a missed_day
   pattern naming a weekday and its count whenever at least 3 of the
   medication's Missing slots (elapsed scheduled slots without a ledger entry)
   fall on the same weekday. *)
C23_MissedDayPattern ==
    IsSome(callOut) =>
        \A i \in DOMAIN medications :
            LET m == medications[i]
                Missing(w) ==
                    {<<d, n>> \in PatternWindow \X DOMAIN m.times :
                        /\ (d + 4) % 7 = w
                        /\ ParseLocal(d, m.times[n]) < now
                        /\ Key(d, m.times[n]) \notin DOMAIN m.doseStatus}
            IN (\E w \in 0 .. 6 : Cardinality(Missing(w)) >= 3) =>
                  \E n \in DOMAIN Val(callOut) :
                      LET pattern == Val(callOut)[n]
                      IN /\ pattern.patternType = "missed_day"
                         /\ pattern.medicationId = m.id
                         /\ Cardinality(Missing(pattern.dayOfWeek)) >= 3
                         /\ pattern.frequency = Cardinality(Missing(pattern.dayOfWeek))

----------------------------------------------------------------------------
(* calculateAdaptiveReminderTime *)

\* a % b of JavaScript: the remainder takes the sign of a
JsRem(a, b) == IF a >= 0 THEN a % b ELSE 0 - ((0 - a) % b)

Min(a, b) == IF a <= b THEN a ELSE b

\* the text `${hours}:${minutes}` as its two numbers; padStart(2, '0') only
\* adds a leading zero to a single digit
ClockText(hours, minutes) == [hours |-> hours, minutes |-> minutes]

\* the "HH:mm" text of a minute of the day
ScheduledText(time) == ClockText(time \div 60, time % 60)

\* calculateAdaptiveReminderTime(scheduledTime, behavior)
calculateAdaptiveReminderTime(scheduledTime, b) ==
    IF b.averageResponseTime = None \/ Val(b.averageResponseTime) <= 0
    THEN ScheduledText(scheduledTime)
    ELSE LET totalMinutes == (scheduledTime \div 60) * 60 + (scheduledTime % 60)
             adjustedMinutes == totalMinutes - Min(Val(b.averageResponseTime), 30)
             adjustedHours == adjustedMinutes \div 60
             adjustedMins == JsRem(adjustedMinutes, 60)
         IN ClockText(adjustedHours, adjustedMins)

----------------------------------------------------------------------------
(* SpecAdaptive: calculateAdaptiveReminderTime applied to scheduled times
   around midnight and mid-day and to unset, non-positive and positive average
   response times *)

AdaptiveTimes == (0 .. MaxScheduled) \cup {9 * 60, MinutesPerDay - 1}

AdaptiveResponses == {None} \cup {Some(a) : a \in -1 .. MaxResponse}

AdaptiveInit ==
    /\ tz = 0
    /\ now = 0
    /\ medications = <<>>
    /\ callIn = None
    /\ callOut = None
    /\ IdleApp /\ IdleLedgerObs /\ IdleSafety /\ IdlePRN /\ IdleReminder
    /\ IdleUndo

CallAdaptive ==
    /\ callOut = None
    /\ \E scheduledTime \in AdaptiveTimes, a \in AdaptiveResponses :
          LET b == [medicationId |-> "m1", snoozeCount |-> 0, lateDoseCount |-> 0,
                    averageResponseTime |-> a]
          IN /\ callIn' = Some([fn |-> "calculateAdaptiveReminderTime",
                                scheduledTime |-> scheduledTime, behavior |-> b])
             /\ callOut' = Some(calculateAdaptiveReminderTime(scheduledTime, b))
    /\ UNCHANGED <<tz, now, appVars, ledgerObs, safetyVars, prnVars, reminderVars, undoVars>>

AdaptiveNext == CallAdaptive

SpecAdaptive == AdaptiveInit /\ [][AdaptiveNext]_vars

(* C24: calculateAdaptiveReminderTime returns the scheduled time unchanged
   when averageResponseTime is unset or not positive, and otherwise a valid
   HH:mm (hours 00-23, minutes 00-59) that lies min(averageResponseTime, 30)
   minutes before the scheduled time, also for scheduled times in the first 30
   minutes after midnight. *)
C24_AdaptiveTime ==
    IsSome(callOut) =>
        LET in == Val(callIn)
            a == in.behavior.averageResponseTime
            out == Val(callOut)
        IN IF a = None \/ Val(a) <= 0
           THEN out = ScheduledText(in.scheduledTime)
           ELSE /\ out.hours \in 0 .. 23
                /\ out.minutes \in 0 .. 59
                /\ out.hours * 60 + out.minutes =
                      (in.scheduledTime - Min(Val(a), 30)) % MinutesPerDay

----------------------------------------------------------------------------
(* The views that classify slots: checkMissedDoses, renderSelectedDateDetails,
   MedicationHistoryLog.  Each is the set of the rows it shows; the order of
   the rows is not kept. *)

Row(m, date, time, status) ==
    [id |-> m.id, date |-> date, time |-> time, status |-> status]

\* status ? status : 'missed'
StatusOrMissed(m, key) ==
    IF StatusOf(m, key) \in DoseStatus THEN StatusOf(m, key) ELSE "missed"

\* checkMissedDoses at instant t: the found missed doses of today and yesterday
checkMissedDoses(meds, t) ==
    {Row(meds[n], dateStr, meds[n].times[c], "missed") :
        <<n, dateStr, c>> \in
            {<<n, ToISODate(t - i * MinutesPerDay), c>> :
                <<n, i, c>> \in
                    {x \in (DOMAIN meds) \X (0 .. 1) \X (1 .. MaxTimes) :
                        /\ x[3] \in DOMAIN meds[x[1]].times
                        /\ LET m == meds[x[1]]
                               date == ToISODate(t - x[2] * MinutesPerDay)
                               time == m.times[x[3]]
                           IN /\ ParseLocal(date, time) < t
                              /\ StatusOf(m, Key(date, time)) \notin DoseStatus}}}

\* getDosesForDate(date)
getDosesForDate(meds, date) ==
    {<<n, c>> \in (DOMAIN meds) \X (1 .. MaxTimes) : c \in DOMAIN meds[n].times}

\* renderSelectedDateDetails with the calendar day selectedDate (a local
\* midnight) selected
renderSelectedDateDetails(meds, selectedDate) ==
    LET dateStr == ToISODate(selectedDate)
    IN {Row(meds[d[1]], dateStr, meds[d[1]].times[d[2]],
            StatusOrMissed(meds[d[1]], Key(dateStr, meds[d[1]].times[d[2]]))) :
            d \in getDosesForDate(meds, selectedDate)}

\* today.setHours(23, 59, 59, 999): the last minute of the local day
EndOfLocalDay(t) == StartOfLocalDay(t) + MinutesPerDay - 1

\* MedicationHistoryLog at instant t.  An instant of the last millisecond of a
\* minute is later than t unless its minute is before t's.
MedicationHistoryLog(meds, t) ==
    {Row(meds[x[1]], ToISODate(EndOfLocalDay(t) - x[2] * MinutesPerDay),
         meds[x[1]].times[x[3]],
         StatusOrMissed(meds[x[1]],
                        Key(ToISODate(EndOfLocalDay(t) - x[2] * MinutesPerDay),
                            meds[x[1]].times[x[3]]))) :
        x \in {y \in (DOMAIN meds) \X (0 .. HistoryDays - 1) \X (1 .. MaxTimes) :
                /\ y[3] \in DOMAIN meds[y[1]].times
                /\ LET date == EndOfLocalDay(t) - y[2] * MinutesPerDay
                   IN /\ ~(date >= t)
                      /\ ~(ParseLocal(ToISODate(date), meds[y[1]].times[y[3]]) > t)}}

----------------------------------------------------------------------------
(* SpecViews: the three views applied, at local noon of the second day, to
   one medication scheduled at 09:00 and 21:00 with any ledger over the
   slots of the days around it *)

ViewDays == FirstDay .. (FirstDay + NumDays)

ViewLedgers ==
    UNION {[D -> DoseStatus] : D \in SUBSET (ViewDays \X {9 * 60, 21 * 60})}

ViewsInit ==
    /\ tz \in TimeZones
    /\ now = ParseLocal(FirstDay + 1, 12 * 60)
    /\ \E l \in ViewLedgers :
          medications = <<[Medication("m1", "Aspirin", "twice daily", "With food",
                                      <<9 * 60, 21 * 60>>, None, None)
                              EXCEPT !.doseStatus = l]>>
    /\ callIn = None
    /\ callOut = None
    /\ IdleApp /\ IdleLedgerObs /\ IdleSafety /\ IdlePRN /\ IdleReminder
    /\ IdleUndo

ViewUnchanged ==
    UNCHANGED <<tz, now, appVars, ledgerObs, safetyVars, prnVars, reminderVars, undoVars>>

CallCheckMissedDoses ==
    /\ callOut = None
    /\ callIn' = Some([fn |-> "checkMissedDoses"])
    /\ callOut' = Some(checkMissedDoses(medications, now))
    /\ ViewUnchanged

\* a click on a day of the calendar, and the history it renders
CallSelectedDateDetails ==
    /\ callOut = None
    /\ \E day \in ViewDays :
          /\ callIn' = Some([fn |-> "renderSelectedDateDetails", day |-> day])
          /\ callOut' = Some(renderSelectedDateDetails(medications,
                                                       ParseLocal(day, 0)))
    /\ ViewUnchanged

CallMedicationHistoryLog ==
    /\ callOut = None
    /\ callIn' = Some([fn |-> "MedicationHistoryLog"])
    /\ callOut' = Some(MedicationHistoryLog(medications, now))
    /\ ViewUnchanged

ViewsNext ==
    \/ CallCheckMissedDoses
    \/ CallSelectedDateDetails
    \/ CallMedicationHistoryLog

SpecViews == ViewsInit /\ [][ViewsNext]_vars

(* C25: every view that classifies a slot reports Taken or Skipped exactly
   when the slot has that entry, Missing exactly when it has no entry and its
   instant has elapsed, and Scheduled when it has no entry and its instant is
   still in the future. *)
C25_SlotClassification ==
    IsSome(callOut) =>
        \A row \in Val(callOut) :
            \A n \in DOMAIN medications :
                medications[n].id = row.id =>
                    LET key == Key(row.date, row.time)
                        ledger == medications[n].doseStatus
                    IN row.status =
                          IF key \in DOMAIN ledger THEN ledger[key]
                          ELSE IF ParseLocal(row.date, row.time) <= now
                               THEN "missed"
                               ELSE "scheduled"

----------------------------------------------------------------------------
(* The other writers of the stored medications: logRefill,
   saveMissedDoseReasons, and the dose history of exportData *)

\* the quantities typed into logRefill's prompt
RefillInputs == {0, 2}

\* the updater logRefill passes to setMedications, at instant t
LogRefillUpdate(prev, id, newQuantity, t) ==
    [i \in DOMAIN prev |->
        IF prev[i].id = id
        THEN [prev[i] EXCEPT !.refillHistory = Append(@, ToISODate(t)),
                             !.quantity = Some(newQuantity),
                             !.refillNotified = FALSE]
        ELSE prev[i]]

\* logRefill(id) from the "Log Refill" button of a low-stock medication, with a
\* valid number typed into the prompt
LogRefill(i) ==
    /\ RefillDue(medications[i])
    /\ Len(medications[i].refillHistory) < MaxRefills
    /\ \E newQuantity \in RefillInputs :
          medications' = LogRefillUpdate(medications, medications[i].id,
                                         newQuantity, now)
    /\ todayString' = RenderToday(now)
    /\ UNCHANGED <<tz, now, isModalOpen, editingMedication, med, nextId,
                   ledgerObs, safetyVars, prnVars, serviceVars>>

\* Object.assign(newReasons, reasonsToSave[med.id])
AssignReasons(reasons, toSave) ==
    [k \in (DOMAIN reasons) \cup (DOMAIN toSave) |->
        IF k \in DOMAIN toSave THEN toSave[k] ELSE reasons[k]]

\* the updater saveMissedDoseReasons passes to setMedications; reasonsToSave
\* maps medication ids to reasons by key
SaveReasonsUpdate(prev, reasonsToSave) ==
    [i \in DOMAIN prev |->
        IF prev[i].id \in DOMAIN reasonsToSave
        THEN [prev[i] EXCEPT !.missedDoseReasons =
                                AssignReasons(@, reasonsToSave[prev[i].id])]
        ELSE prev[i]]

\* saveMissedDoseReasons, from the missed doses modal, with a reason for the
\* 09:00 slot of the first day
SaveMissedDoseReasons(i) ==
    /\ LET key == Key(FirstDay, 9 * 60)
           id == medications[i].id
       IN /\ key \notin DOMAIN medications[i].missedDoseReasons
          /\ medications' =
                SaveReasonsUpdate(medications,
                                  [x \in {id} |-> [k \in {key} |-> "Forgot"]])
    /\ todayString' = RenderToday(now)
    /\ UNCHANGED <<tz, now, isModalOpen, editingMedication, med, nextId,
                   ledgerObs, safetyVars, prnVars, serviceVars>>

\* exportData: the rows of the dose history log
historyLog(meds) ==
    {[date |-> k[1], time |-> k[2], name |-> meds[i].name,
      status |-> IF StatusOf(meds[i], k) \in DoseStatus
                 THEN StatusOf(meds[i], k) ELSE "missed",
      reason |-> IF k \in DOMAIN meds[i].missedDoseReasons
                 THEN meds[i].missedDoseReasons[k] ELSE Undefined] :
        <<i, k>> \in {x \in (DOMAIN meds) \X
                              UNION {(DOMAIN meds[j].doseStatus)
                                     \cup (DOMAIN meds[j].missedDoseReasons) :
                                        j \in DOMAIN meds} :
                        x[2] \in (DOMAIN meds[x[1]].doseStatus)
                                 \cup (DOMAIN meds[x[1]].missedDoseReasons)}}

----------------------------------------------------------------------------
(* SpecStore: the writers of the stored medications, for one medication that
   is low on stock: the dose buttons, the edit form, delete, logRefill,
   saveMissedDoseReasons and the timer *)

StoreInit ==
    /\ tz \in TimeZones
    /\ now = ParseLocal(FirstDay, 9 * 60)
    /\ medications = <<Medication("m1", "Aspirin", "once daily", "With food",
                                  <<9 * 60>>, Some(1), Some(1))>>
    /\ isModalOpen = FALSE
    /\ editingMedication = None
    /\ med = None
    /\ todayString = RenderToday(now)
    /\ nextId = 1
    /\ behavior = None
    /\ notifications = <<>>
    /\ IdleLedgerObs /\ IdleSafety /\ IdlePRN /\ IdleCall
    /\ IdleUndo

StoreNext ==
    \/ Advance
    \/ RenderDashboard
    \/ Tick
    \/ CloseModal
    \/ ChangeQuantity
    \/ SubmitEdit
    \/ \E i \in DOMAIN medications : HandleEdit(i)
    \/ \E i \in DOMAIN medications : DeleteMedication(i)
    \/ \E i \in DOMAIN medications : LogRefill(i)
    \/ \E i \in DOMAIN medications : SaveMissedDoseReasons(i)
    \/ \E i \in DOMAIN medications, t \in 1 .. MaxTimes : ClickTaken(i, t)
    \/ \E i \in DOMAIN medications, t \in 1 .. MaxTimes : ClickSkip(i, t)

SpecStore == StoreInit /\ [][StoreNext]_vars

(* C26: after a medication is deleted, its Taken and Skipped entries are
   still in the stored state and still appear in the dose history export. *)
C26_EntriesOutliveDelete ==
    [][\A i \in DOMAIN medications :
          (\A j \in DOMAIN medications' : medications'[j].id # medications[i].id) =>
              \A k \in DOMAIN medications[i].doseStatus :
                  \E row \in historyLog(medications') :
                      /\ row.name = medications[i].name
                      /\ row.date = k[1]
                      /\ row.time = k[2]
                      /\ row.status = medications[i].doseStatus[k]]_vars

(* C27: only the dose-transition command changes the ledger: saving the edit
   form (also a form opened before later dose commands or timer updates),
   logRefill, saveMissedDoseReasons and the timer callback leave the ledger
   entries of every medication that exists before and after as they were. *)
C27_OnlyDoseCommandWritesLedger ==
    [][LET Same(i, j) == medications[i].id = medications'[j].id
           EditSaved == isModalOpen /\ ~isModalOpen' /\ medications' # medications
           Refilled == \E i \in DOMAIN medications, j \in DOMAIN medications' :
                          /\ Same(i, j)
                          /\ medications'[j].refillHistory # medications[i].refillHistory
           ReasonsSaved == \E i \in DOMAIN medications, j \in DOMAIN medications' :
                              /\ Same(i, j)
                              /\ medications'[j].missedDoseReasons
                                    # medications[i].missedDoseReasons
           Ticked == \/ notifications' # notifications
                     \/ \E i \in DOMAIN medications, j \in DOMAIN medications' :
                           /\ Same(i, j)
                           /\ medications'[j].refillNotified
                                 # medications[i].refillNotified
       IN (EditSaved \/ Refilled \/ ReasonsSaved \/ Ticked) =>
             \A i \in DOMAIN medications, j \in DOMAIN medications' :
                 Same(i, j) => medications'[j].doseStatus = medications[i].doseStatus]_vars

(* C28: a refill notification is sent only by the 09:00 timer callback for a
   medication with quantity <= refillThreshold and refillNotified false, and
   the callback sets refillNotified; and refillNotified is cleared only by
   logRefill or by a 09:00 callback that saw quantity > refillThreshold, so a
   medication is not notified twice in one low-stock episode. *)
C28_OneRefillNotificationPerEpisode ==
    [][/\ \A n \in (DOMAIN notifications') \ (DOMAIN notifications) :
             notifications'[n].kind = "refill" =>
                 \E i \in DOMAIN medications :
                     /\ medications[i].id = notifications'[n].id
                     /\ LocalClock(now) = 9 * 60
                     /\ RefillDue(medications[i])
                     /\ ~medications[i].refillNotified
                     /\ medications'[i].refillNotified
       /\ \A i \in DOMAIN medications, j \in DOMAIN medications' :
             (/\ medications[i].id = medications'[j].id
              /\ medications[i].refillNotified
              /\ ~medications'[j].refillNotified) =>
                 /\ isModalOpen' = isModalOpen
                 /\ \/ medications'[j].refillHistory =
                          Append(medications[i].refillHistory, ToISODate(now))
                    \/ LocalClock(now) = 9 * 60 /\ RefillStocked(medications[i])]_vars

----------------------------------------------------------------------------
(* SpecPRNGated: the as-needed medication of SpecPRN started with no more
   doses counted than its daily maximum, recordPRNDose called only after
   canTakePRN allowed the dose at the same instant *)

PRNGatedInit ==
    /\ PRNInit
    /\ prnConfig.takenToday <= prnConfig.maxPerDay

SpecPRNGated == PRNGatedInit /\ [][PRNNext]_vars

(* C29: started with takenToday <= maxPerDay and with recordPRNDose called
   only where canTakePRN answered canTake = TRUE, every state whose resetDate
   is the current date has takenToday <= maxPerDay. *)
C29_DailyMaximumKept ==
    (prnConfig.resetDate = ToISODate(now)) =>
        prnConfig.takenToday <= prnConfig.maxPerDay

\* after midnight two doses were recorded an hour apart, the daily maximum of 2
\* is reached and the gate denies a third
C29_Witness ==
    /\ prnConfig.resetDate = ToISODate(now)
    /\ prnConfig.resetDate = FirstDay + 1
    /\ prnConfig.maxPerDay = 2
    /\ prnConfig.takenToday = 2
    /\ IsSome(prnOut)
    /\ ~Val(prnOut).canTake
    /\ Val(Val(prnOut).reason).kind = "dailyLimit"

----------------------------------------------------------------------------
(* The undo service: UndoService.addAction, undo, clear *)

\* the n-th action handed to addAction; running its undo callback is recorded
\* in the variable undone
UndoAction(n) == [id |-> n, type |-> "dose_taken"]

addAction_NoLimit(stack, action) == <<action>> \o stack

\* addAction(action): unshift, then slice(0, maxActions) when longer
addAction(stack, action) ==
    LET unshifted == <<action>> \o stack
    IN IF Len(unshifted) > maxActions
       THEN SubSeq(unshifted, 1, maxActions)
       ELSE unshifted

AddAction ==
    /\ added < UndoAdds
    /\ added' = added + 1
    /\ actions' = addAction(actions, UndoAction(added + 1))
    /\ undone' = <<>>
    /\ callIn' = Some([fn |-> "addAction", action |-> UndoAction(added + 1)])
    /\ callOut' = None
    /\ UNCHANGED <<tz, now, appVars, ledgerObs, safetyVars, prnVars, reminderVars>>

\* undo(): shift, then the action's undo callback, then the action returned;
\* NULL from an empty stack
Undo ==
    /\ callIn' = Some([fn |-> "undo"])
    /\ IF actions # <<>>
       THEN /\ actions' = Tail(actions)
            /\ undone' = <<Head(actions)>>
            /\ callOut' = Some(Head(actions))
       ELSE /\ actions' = actions
            /\ undone' = <<>>
            /\ callOut' = Some(NULL)
    /\ UNCHANGED <<tz, now, appVars, ledgerObs, safetyVars, prnVars, reminderVars,
                   added>>

\* clear()
Clear ==
    /\ actions' = <<>>
    /\ undone' = <<>>
    /\ callIn' = Some([fn |-> "clear"])
    /\ callOut' = None
    /\ UNCHANGED <<tz, now, appVars, ledgerObs, safetyVars, prnVars, reminderVars,
                   added>>

UndoInit ==
    /\ tz = 0
    /\ now = 0
    /\ medications = <<>>
    /\ IdleApp /\ IdleLedgerObs /\ IdleSafety /\ IdlePRN /\ IdleReminder
    /\ IdleCall /\ IdleUndo

UndoNext == AddAction \/ Undo \/ Clear

SpecUndo == UndoInit /\ [][UndoNext]_vars

(* C30: after any sequence of addAction, undo and clear the stack holds at
   most 10 actions, newest first, the 11th addAction dropping the oldest; undo
   removes exactly the most recently added action still on the stack, runs its
   undo callback once and returns it; on an empty stack undo returns null and
   changes nothing. *)
C30_UndoStack ==
    [][/\ Len(actions') <= 10
       /\ \A n \in 1 .. Len(actions') - 1 : actions'[n].id > actions'[n + 1].id
       /\ (callIn' = Some([fn |-> "addAction", action |-> UndoAction(added')])) =>
             /\ actions'[1] = UndoAction(added')
             /\ \A n \in 2 .. Len(actions') : actions'[n] = actions[n - 1]
             /\ Len(actions') = IF Len(actions) = 10 THEN 10 ELSE Len(actions) + 1
       /\ (callIn' = Some([fn |-> "undo"])) =>
             IF actions = <<>>
             THEN /\ callOut' = Some(NULL)
                  /\ actions' = <<>>
                  /\ undone' = <<>>
             ELSE /\ \A n \in DOMAIN actions : actions[1].id >= actions[n].id
                  /\ callOut' = Some(actions[1])
                  /\ undone' = <<actions[1]>>
                  /\ actions' = Tail(actions)]_vars

\* eleven actions were added, the first of them was dropped, and undo has
\* returned the eleventh and left the nine between them
C30_Witness ==
    /\ added = 11
    /\ callIn = Some([fn |-> "undo"])
    /\ callOut = Some(UndoAction(11))
    /\ undone = <<UndoAction(11)>>
    /\ Len(actions) = 9
    /\ actions[1].id = 10
    /\ actions[9].id = 2

====
